---- MODULE Spec2Model ----
(***************************************************************************)
(* Hybrid intent router of the Carely-AI chat backend                      *)
(* (server/app/agents/routing_agent.py): keyword/stem voting, the LLM      *)
(* fallback classifier, hybrid_decision and route_decision.                *)
(*                                                                         *)
(* A message is a sequence of lexemes: words and separators.  Two words    *)
(* are never adjacent (a separator stands between them), so the regular    *)
(* expression of _tokenize yields exactly the words, in order.             *)
(* Confidences are exact rationals <<numerator, denominator>> in lowest    *)
(* terms with a positive denominator.                                      *)
(***************************************************************************)
EXTENDS Integers, Sequences, FiniteSets, TLC

VARIABLES
    client,                    \* TRUE iff an OpenAI client was given to the constructor
    min_confidence_for_rules,  \* the rule threshold chosen at construction
    pc,                        \* position inside route_decision
    text,                      \* the message being routed
    rule_result,               \* the RoutingResult of _rule_scan
    result,                    \* the RoutingResult hybrid_decision returns
    decision,                  \* the dictionary route_decision returns
    scheduling_hits,           \* local of _rule_scan
    qna_hits,                  \* local of _rule_scan
    llm_calls,                 \* generation-service calls made for this message
    llm_reply,                 \* what the generation service answered
    \* retrieval and context assembly (rag_service.py, medical_rag.py)
    rpc,                       \* position inside get_context_string / RAG.retrieve
    query_text,                \* the query, as its kind: "", " " or "q"
    top_k,                     \* number of matches requested
    chunks,                    \* the passages retrieval returned, in rank order
    context,                   \* the string returned, as a sequence of segments
    embed_calls,               \* embedding-service calls made for this query
    index_calls,               \* vector-index queries made for this query
    query_outcome,             \* what the services did: "", "blank", "embed_raises"
                               \* or the kind of the index response
    \* ingestion (insert_script.py nlp_upsert, medical_rag.py RAG.nlp_upsert)
    ipc,                       \* position inside nlp_upsert
    impl,                      \* which of the two nlp_upsert functions runs
    doc_len,                   \* len(doc): the lines are 0 .. doc_len - 1
    chunk_size,                \* lines per chunk
    stride,                    \* lines of overlap asked for
    line_i,                    \* the loop variable i of range(0, len(doc), chunk_size)
    count,                     \* chunks upserted so far
    window,                    \* <<i_begin, i_end>> of the chunk in hand
    embedded,                  \* TRUE iff the chunk in hand has its embedding
    embed_failures,            \* failed embedding calls for the chunk in hand
    upserted,                  \* the upsert calls made, in order
    returned,                  \* the value nlp_upsert returned
    \* coordination (routing_agent.py get_appointment_context, get_doctor_schedule)
    gpc,                       \* position inside the coordination method
    qna_agent,                 \* the attribute self.qna_agent: "unset", "None" or "agent"
    query_no,                  \* queries of get_appointment_context already asked
    all_doctor_info,           \* the responses kept, as their lengths
    coord_failed,              \* TRUE iff a QnA agent call raised
    coord_result,              \* what the coordination method returned
    \* question answering (qna_agent.py generate_response)
    qpc,                       \* position inside generate_response
    user_message,              \* the question, as its kind: "", " " or "q"
    use_rag,                   \* self.use_rag
    rag_service,               \* TRUE iff self.rag_service is set
    rag_context,               \* the local rag_context: "None" or a string
    system_prompt,             \* the system prompt built for the generation call
    retrieval_calls,           \* get_context_string calls made for this question
    generation_calls,          \* chat.completions.create calls made for it
    qna_reply,                 \* what generate_response returned
    \* conversational RAG (medical_rag.py class RAG)
    lpc,                       \* position of each caller inside the method it runs
    l_method,                  \* the method: "__init__", "set_rag_env" or "query_RAG"
    l_self,                    \* the object the method runs on
    l_query,                   \* the local query_message
    l_res,                     \* the local res of retrieve: the matches it received
    l_prompt,                  \* the local prompt of retrieve
    l_count,                   \* the local count of retrieve
    l_text,                    \* the text wrap_text was called with
    l_files,                   \* the knowledge files build_RAG has gone through
    l_sent,                    \* the messages passed to response_request
    l_returned,                \* the value the method returned
    objects,                   \* the RAG objects whose construction has finished
    chatContext,               \* the module global chatContext
    retrieved_knowledge,       \* the module global retrieved_knowledge
    knowledge_message,         \* the module global knowledge_message
    context_query_knowledge,   \* the module global context_query_knowledge
    response,                  \* the module global response, as its output_text
    response_message,          \* the module global response_message
    self_contexts,             \* self.contexts of each object
    chatBot_Response,          \* self.chatBot_Response of each object
    turns,                     \* method calls started so far
    \* appointment tools (appointment_agent.py)
    appointments,              \* the appointments table: row id is the index
    apc,                       \* position of each database session inside a tool
    tool_call,                 \* the tool operation each session runs
    loaded,                    \* the Appointment object the running tool holds: <<>> or <<[id, attrs]>>
    tool_data,                 \* the data the tool returned
    \* chat endpoint (chat.py)
    cpc,                       \* position inside chat()
    request,                   \* the request: patient, message, conversation_id
    conversation,              \* the conversation the request resolved to, 0 if none
    ai_response,               \* the assistant reply, <<>> before the handler ran
    chat_status,               \* the HTTP status of the request, 0 while running
    conversations,             \* chat_conversations: the owner of each committed row
    messages,                  \* chat_messages: the committed rows in insertion order
    pending,                   \* rows added to the session and not yet committed
    stored_before              \* how many rows chat_messages had when the request came in

routerVars == <<client, min_confidence_for_rules, pc, text, rule_result, result,
                decision, scheduling_hits, qna_hits, llm_calls, llm_reply>>

ragVars == <<rpc, query_text, top_k, chunks, context, embed_calls, index_calls,
             query_outcome>>

ingestVars == <<ipc, impl, doc_len, chunk_size, stride, line_i, count, window,
                embedded, embed_failures, upserted, returned>>

coordVars == <<gpc, qna_agent, query_no, all_doctor_info, coord_failed, coord_result>>

qnaVars == <<qpc, user_message, use_rag, rag_service, rag_context, system_prompt,
             retrieval_calls, generation_calls, qna_reply>>

legacyVars == <<lpc, l_method, l_self, l_query, l_res, l_prompt, l_count, l_text,
                l_files, l_sent, l_returned, objects,
                chatContext, retrieved_knowledge, knowledge_message,
                context_query_knowledge, response, response_message, self_contexts,
                chatBot_Response, turns>>

apptVars == <<appointments, apc, tool_call, loaded, tool_data>>

chatVars == <<cpc, request, conversation, ai_response, chat_status, conversations,
              messages, pending, stored_before>>

otherVars == <<coordVars, qnaVars, legacyVars, apptVars, chatVars>>

vars == <<routerVars, ragVars, ingestVars, otherVars>>

\* ---------------------------------------------------------------- bounds
MaxLen == 5        \* lexemes in a message
MaxVotes == 9      \* hit counts drawn when the vote aggregation is checked alone

\* ------------------------------------------------------------- rationals
Abs(n) == IF n < 0 THEN -n ELSE n

Max(a, b) == IF a >= b THEN a ELSE b

Rat(n, d) ==
    LET RECURSIVE GCD(_, _)
        GCD(a, b) == IF b = 0 THEN a ELSE GCD(b, a % b)
        g == GCD(Abs(n), d)
    IN  <<n \div g, d \div g>>

IsNaN(a) == a[2] = 0

RLt(a, b) == ~IsNaN(a) /\ ~IsNaN(b) /\ a[1] * b[2] < b[1] * a[2]

RLeq(a, b) == ~IsNaN(a) /\ ~IsNaN(b) /\ a[1] * b[2] <= b[1] * a[2]

Half == <<1, 2>>

One == <<1, 1>>

Zero == <<0, 1>>

DispatchThreshold == <<3, 5>>

\* ------------------------------------------------------------ vocabulary
\* A sub-vocabulary of DEFAULT_INTENT_KEYWORDS, enough to classify Words.
intent_map ==
    [k \in {"Scheduling", "Q&A"} |->
        IF k = "Scheduling"
        THEN {"headache", "hurt", "book", "appointment", "visit"}
        ELSE {"hours", "what", "cost", "dosage"}]

Words == {"headache", "hurts", "hours", "What", "the"}

Separators == {" "}

\* PorterStemmer.stem on the tokens and vocabulary words of the model
stem(w) ==
    CASE w = "headache"    -> "headach"
      [] w = "hurts"       -> "hurt"
      [] w = "hours"       -> "hour"
      [] w = "appointment" -> "appoint"
      [] w = "dosage"      -> "dosag"
      [] OTHER             -> w

\* ------------------------------------------------------ keyword pipeline
\* re.findall(r"[A-Za-z]+(?:'[A-Za-z]+)?|[0-9]+", text), lowercased
RECURSIVE _tokenize(_)

_tokenize(t) ==
    LET \* str.lower on the words of the model
        LowerWord(w) == IF w = "What" THEN "what" ELSE w
    IN
        IF t = <<>> THEN <<>>
        ELSE IF Head(t) \in Words
             THEN <<LowerWord(Head(t))>> \o _tokenize(Tail(t))
             ELSE _tokenize(Tail(t))

NoTask == "None"

_scan_token(token) ==
    LET sch_stems == {stem(w) : w \in intent_map["Scheduling"]}
        qna_stems == {stem(w) : w \in intent_map["Q&A"]}
    IN
        IF stem(token) \in sch_stems \/ token \in intent_map["Scheduling"]
        THEN "scheduling"
        ELSE IF stem(token) \in qna_stems \/ token \in intent_map["Q&A"]
             THEN "qna"
             ELSE NoTask

TitleKeepsCase(task) == task

\* str.title on the two task names
Title(task) == IF task = "scheduling" THEN "Scheduling" ELSE "Qna"

\* the evidence list built by the loop of _rule_scan (index is 0-based)
RECURSIVE ScanFrom(_, _)
ScanFrom(tokens, index) ==
    IF tokens = <<>> THEN <<>>
    ELSE LET task == _scan_token(Head(tokens))
             rest == ScanFrom(Tail(tokens), index + 1)
         IN IF task # NoTask
            THEN <<[index |-> index, keyword |-> Head(tokens),
                    specific_task |-> Title(task), match |-> TRUE]>> \o rest
            ELSE rest

ConfidenceOverTotalPlusOne(s, q) ==
    LET total == Max(1, s + q)
        distance == Abs(s - q)
    IN Rat(total + 1 + distance, 2 * (total + 1))

\* confidence = 0.5 + 0.5 * (distance / total)
Confidence(s, q) ==
    LET total == Max(1, s + q)
        distance == Abs(s - q)
    IN Rat(total + distance, 2 * total)

VoteIntentTieToScheduling(s, q) ==
    IF s >= q THEN "scheduling" ELSE "qna"

VoteIntent(s, q) ==
    IF s > q THEN "scheduling"
    ELSE IF s < q THEN "qna"
    ELSE "user_decision"

\* the RoutingResult _rule_scan builds from the two hit counts
Aggregate(s, q, evidence, t) ==
    LET VoteRationale(sv, qv) ==
            IF sv > qv THEN "keyword votes favor scheduling"
            ELSE IF sv < qv THEN "keyword votes favor qna"
            ELSE "keyword votes equal or unclear"
    IN
        [intent     |-> VoteIntent(s, q),
         confidence |-> Confidence(s, q),
         rationale  |-> VoteRationale(s, q),
         counts     |-> [scheduling |-> s, qna |-> q],
         evidence   |-> evidence,
         source     |-> "stemming rule",
         raw_text   |-> t]

_rule_scan(t) ==
    LET Evidence(m) == ScanFrom(_tokenize(m), 0)
        \* sum(1 for e in evidence if e["specific_task"] == label)
        Hits(evidence, label) ==
            Cardinality({i \in 1..Len(evidence) : evidence[i].specific_task = label})
    IN
        LET evidence == Evidence(t)
        IN Aggregate(Hits(evidence, "Scheduling"), Hits(evidence, "Q&A"), evidence, t)

\* ---------------------------------------------------------- LLM fallback
\* lines 344-347: lower-case, map "q&a" to "qna", drop every other "&"
NormalizeIntent(cs) ==
    LET UpperLetters == <<"A","B","C","D","E","F","G","H","I","J","K","L","M",
                          "N","O","P","Q","R","S","T","U","V","W","X","Y","Z">>
        \* the string a sequence of characters spells
        RECURSIVE Join(_)
        Join(xs) == IF xs = <<>> THEN "" ELSE Head(xs) \o Join(Tail(xs))
        \* str.lower on a sequence of characters
        Lower(xs) ==
            LET LowerChar(c) ==
                    IF \E i \in 1..26 : UpperLetters[i] = c
                    THEN (<<"a","b","c","d","e","f","g","h","i","j","k","l","m",
                            "n","o","p","q","r","s","t","u","v","w","x","y","z">>)[
                                CHOOSE i \in 1..26 : UpperLetters[i] = c]
                    ELSE c
            IN
                [i \in 1..Len(xs) |-> LowerChar(xs[i])]
        \* str.replace("&", "")
        StripAmp(xs) == SelectSeq(xs, LAMBDA c : c # "&")
    IN
        LET lowered == Lower(cs)
            mapped  == IF lowered = <<"q","&","a">> THEN <<"q","n","a">> ELSE lowered
        IN Join(StripAmp(mapped))

ZeroCounts == [scheduling |-> 0, qna |-> 0]

\* what the generation service can do with one request:
\*   "raise"     the call raises, or the message content is None
\*   "nonjson"   the content is not JSON
\*   "nonobject" the content is JSON but not an object (array, string, number, null)
\*   "object"    the content is a JSON object with the given keys
NoReply ==
    [kind |-> "none", intent |-> [tag |-> "missing", val |-> <<>>],
     confidence |-> [tag |-> "missing", val |-> Zero],
     counts |-> [tag |-> "missing", val |-> ZeroCounts],
     evidence |-> <<>>, rationale |-> ""]

LLMReplies ==
    LET \* float('nan'): every comparison with it is false
        NaN == <<0, 0>>
    IN
        LET \* the values the "intent" key of the reply can carry, as str() renders them
            IntentTexts ==
                {<<"s","c","h","e","d","u","l","i","n","g">>,
                 <<"S","c","h","e","d","u","l","i","n","g">>,
                 <<"q","n","a">>,
                 <<"Q","&","A">>,
                 <<"q"," ","&"," ","a">>,
                 <<"u","s","e","r","_","d","e","c","i","s","i","o","n">>,
                 <<"b","i","l","l","i","n","g">>,
                 <<"&">>,
                 <<>>}
            IntentFields ==
                {[tag |-> "missing", val |-> <<>>], [tag |-> "null", val |-> <<>>]}
                \cup {[tag |-> "str", val |-> cs] : cs \in IntentTexts}
            ConfidenceNumbers == {<<0, 1>>, <<3, 10>>, <<3, 5>>, <<9, 10>>, <<17, 10>>, NaN}
            \* "text" is a string float() rejects
            ConfidenceFields ==
                {[tag |-> t, val |-> Zero] : t \in {"missing", "null", "text"}}
                \cup {[tag |-> "num", val |-> n] : n \in ConfidenceNumbers}
            CountsFields ==
                {[tag |-> "missing", val |-> ZeroCounts],
                 [tag |-> "null", val |-> ZeroCounts],
                 [tag |-> "obj", val |-> [scheduling |-> 0, qna |-> 2]]}
            EvidenceFields == {<<>>, <<"hours">>}
            ObjectReplies ==
                {[NoReply EXCEPT !.kind = "object", !.intent = i, !.confidence = c,
                                 !.rationale = "short reason"] :
                    i \in IntentFields, c \in ConfidenceFields}
                \cup {[NoReply EXCEPT !.kind = "object", !.counts = n, !.evidence = e] :
                        n \in CountsFields, e \in EvidenceFields}
        IN
            {[NoReply EXCEPT !.kind = k] : k \in {"raise", "nonjson", "nonobject"}}
            \cup ObjectReplies

NoResult ==
    [intent |-> "", confidence |-> Zero, rationale |-> "", counts |-> ZeroCounts,
     evidence |-> <<>>, source |-> "", raw_text |-> <<>>]

\* the RoutingResult returned when no client was configured
Unavailable(t) ==
    [intent |-> "user_decision", confidence |-> Half, rationale |-> "llm unavailable",
     counts |-> ZeroCounts, evidence |-> <<>>, source |-> "fallback", raw_text |-> t]

\* data after the try/except of _llm_classification
ParsedData(reply) ==
    LET \* the dictionary the except branch substitutes
        InvalidJson ==
            [NoReply EXCEPT !.kind = "object",
                            !.intent = [tag |-> "str",
                                        val |-> <<"u","s","e","r","_","d","e","c","i","s","i","o","n">>],
                            !.confidence = [tag |-> "num", val |-> Half],
                            !.rationale = "invalid llm json",
                            !.counts = [tag |-> "obj", val |-> ZeroCounts]]
    IN
        IF reply.kind \in {"raise", "nonjson"} THEN InvalidJson ELSE reply

\* lines 344-357 run outside the try block: data.get on a non-object and
\* float() on an unconvertible value propagate to the caller
LlmRaises(reply) ==
    LET \* float(data.get("confidence", 0.5)) raises on None and on a non-numeric string
        FloatRaises(f) == f.tag \in {"null", "text"}
    IN
        LET data == ParsedData(reply)
        IN data.kind = "nonobject" \/ FloatRaises(data.confidence)

\* _llm_classification with a client, given the service's reply
_llm_classification(t, reply) ==
    LET \* str(data.get("intent", "user_decision"))
        IntentStr(f) ==
            CASE f.tag = "missing" -> <<"u","s","e","r","_","d","e","c","i","s","i","o","n">>
              [] f.tag = "null"    -> <<"N","o","n","e">>
              [] OTHER             -> f.val
        FloatOf(f) == IF f.tag = "missing" THEN Half ELSE f.val
        \* data.get("counts", {...}) or {...}
        CountsOf(f) == IF f.tag = "obj" THEN f.val ELSE ZeroCounts
    IN
        LET data == ParsedData(reply)
        IN [intent     |-> NormalizeIntent(IntentStr(data.intent)),
            confidence |-> FloatOf(data.confidence),
            rationale  |-> data.rationale,
            counts     |-> CountsOf(data.counts),
            evidence   |-> data.evidence,
            source     |-> "llm",
            raw_text   |-> t]

GuardResultZeroConfidence ==
    [intent |-> "user_decision", confidence |-> Zero,
     rationale |-> "empty or missing text", counts |-> ZeroCounts,
     evidence |-> <<>>, source |-> "guard", raw_text |-> <<>>]

PreferMixesFields(llm_result, rule) ==
    IF llm_result.intent = "" THEN rule
    ELSE [llm_result EXCEPT !.counts = rule.counts, !.evidence = rule.evidence]

\* hybrid_decision: `if not llm_result.intent: return rule_result`
Prefer(llm_result, rule) ==
    IF llm_result.intent = "" THEN rule ELSE llm_result

\* the guard result of hybrid_decision
GuardResult ==
    [intent |-> "user_decision", confidence |-> Half,
     rationale |-> "empty or missing text", counts |-> ZeroCounts,
     evidence |-> <<>>, source |-> "guard", raw_text |-> <<>>]

\* `x or default` on a float: 0.0 is falsy, nan is not
OrHalf(c) == IF ~IsNaN(c) /\ c[1] = 0 THEN Half ELSE c

OrUserDecision(i) == IF i = "" THEN "user_decision" ELSE i

NoDecision ==
    [intent |-> "", confidence |-> Zero, next_service |-> "", action |-> "",
     payload |-> [text |-> <<>>, language |-> ""], raw_result |-> NoResult]

DispatchIgnoringConfidence(t, r) ==
    LET intent == OrUserDecision(r.intent)
        confidence == OrHalf(r.confidence)
        target ==
            IF intent = "scheduling"
            THEN <<"appointment_service", "book_appointment">>
            ELSE IF intent = "qna"
                 THEN <<"qna_service", "answer_question">>
                 ELSE <<"frontend", "ask_user_decision">>
    IN [intent |-> intent, confidence |-> confidence,
        next_service |-> target[1], action |-> target[2],
        payload |-> [text |-> t, language |-> "English"],
        raw_result |-> r]

\* route_decision after hybrid_decision returned r
Dispatch(t, r) ==
    LET intent == OrUserDecision(r.intent)
        confidence == OrHalf(r.confidence)
        target ==
            IF RLeq(DispatchThreshold, confidence) /\ intent = "scheduling"
            THEN <<"appointment_service", "book_appointment">>
            ELSE IF RLeq(DispatchThreshold, confidence) /\ intent = "qna"
                 THEN <<"qna_service", "answer_question">>
                 ELSE <<"frontend", "ask_user_decision">>
    IN [intent |-> intent, confidence |-> confidence,
        next_service |-> target[1], action |-> target[2],
        payload |-> [text |-> t, language |-> "English"],
        raw_result |-> r]

\* hybrid_decision: rule_result.confidence < self.min_confidence_for_rules
BelowOrAtThreshold(c, threshold) == RLeq(c, threshold)

BelowThreshold(c, threshold) == RLt(c, threshold)

\* ------------------------------------------ retrieval and context assembly
MaxTopK == 3

\* medical_rag.py module globals
delimiter == "########"

limit == 8000

\* what index.query can do: raise, return None, return a mapping without
\* 'matches', return matches, or return matches followed by an entry that
\* is not a mapping ("malformed": reading it raises)
IndexResponses ==
    LET \* lengths, in characters, of the text stored with a vector; 0 is the
        \* empty string
        PassageLengths == {0, 1, 3000, 4000, 7998, 7999}
        \* what a match carries under metadata.text: a string, None, or
        \* nothing ("absent": no 'text' key, or no metadata at all)
        PassageTexts ==
            {[text |-> "str", len |-> n] : n \in PassageLengths}
            \cup {[text |-> "None", len |-> 0], [text |-> "absent", len |-> 0]}
        \* a stored passage is identified by its rank in the response; its text is
        \* kept by identity and length
        Matches ==
            UNION {{[r \in 1..n |-> [id |-> r, text |-> f[r].text, len |-> f[r].len]] :
                        f \in [1..n -> PassageTexts]} : n \in 0..MaxTopK}
    IN
        {[kind |-> k, matches |-> <<>>] : k \in {"raises", "none", "nomatches"}}
        \cup {[kind |-> k, matches |-> m] : k \in {"matches", "malformed"}, m \in Matches}

\* the number of entries of the response
Entries(resp) == Len(resp.matches) + IF resp.kind = "malformed" THEN 1 ELSE 0

\* a string is a sequence of segments: a literal, or the text of a passage
Lit(s) == [kind |-> "lit", text |-> s, id |-> 0, len |-> Len(s)]

PassageText(p) == [kind |-> "passage", text |-> "", id |-> p.id, len |-> p.len]

\* string concatenation: an empty string adds nothing
Cat(rope, seg) == IF seg.len = 0 THEN rope ELSE Append(rope, seg)

RECURSIVE RopeLen(_)
RopeLen(rope) ==
    IF rope = <<>> THEN 0 ELSE rope[1].len + RopeLen(Tail(rope))

QueryKinds == {"", " ", "q"}

\* RAGService.query: `not query_text or not query_text.strip()`
BlankQueryEmptyOnly(q) == q = ""

BlankQuery(q) == q \in {"", " "}

\* RAGService.query: the chunks extracted from the response with
\* metadata.get('text', '') and `if text`, which leaves out a text that is
\* empty, None or absent; anything that raises inside the try block gives []
RECURSIVE ExtractChunks(_)
ExtractChunks(matches) ==
    IF matches = <<>> THEN <<>>
    ELSE IF matches[1].text = "str" /\ matches[1].len > 0
         THEN <<matches[1]>> \o ExtractChunks(Tail(matches))
         ELSE ExtractChunks(Tail(matches))

QueryChunksKeepsExtracted(resp) ==
    IF resp.kind \in {"matches", "malformed"} THEN ExtractChunks(resp.matches) ELSE <<>>

QueryChunks(resp) ==
    IF resp.kind = "matches" THEN ExtractChunks(resp.matches) ELSE <<>>

RECURSIVE JoinNewline(_)
JoinNewline(parts) ==
    IF parts = <<>> THEN <<>>
    ELSE IF Len(parts) = 1 THEN parts[1]
         ELSE parts[1] \o <<Lit("\n")>> \o JoinNewline(Tail(parts))

\* get_context_string after query returned cs
ContextString(cs) ==
    LET \* get_context_string: the list joined by "\n".join
        context_parts(ps) ==
            LET \* f"\n**Source {i}:**\n{chunk}\n"
                SourceBlock(n, chunk) ==
                    <<Lit("\n**Source " \o ToString(n) \o ":**\n"), PassageText(chunk), Lit("\n")>>
            IN
                <<(<<Lit("**Relevant Medical Information from Knowledge Base:**\n")>>)>>
                \o [n \in 1..Len(ps) |-> SourceBlock(n, ps[n])]
    IN
        IF cs = <<>> THEN <<>> ELSE JoinNewline(context_parts(cs))

\* [x["metadata"]["text"] for x in res["matches"]]: one text per match, empty
\* ones and None included; a match without the key raises KeyError and
\* nothing is assigned
Contexts(matches) ==
    [raised |-> \E r \in DOMAIN matches : matches[r].text = "absent",
     list |-> matches]

RECURSIVE AppendContextsSkipsOversized(_, _, _, _)
AppendContextsSkipsOversized(prompt, contexts, n, proceed) ==
    IF ~(proceed /\ n < Len(contexts)) THEN [raised |-> FALSE, prompt |-> prompt]
    ELSE IF contexts[n + 1].text = "None" THEN [raised |-> TRUE, prompt |-> prompt]
    ELSE IF RopeLen(prompt) + contexts[n + 1].len >= limit
         THEN AppendContextsSkipsOversized(prompt, contexts, n + 1, proceed)
         ELSE AppendContextsSkipsOversized(Cat(prompt, PassageText(contexts[n + 1])),
                                           contexts, n + 1, proceed)

\* RAG.retrieve: the while loop appending contexts until one does not fit;
\* len(None) raises TypeError when the loop reaches such a context
RECURSIVE AppendContexts(_, _, _, _)
AppendContexts(prompt, contexts, n, proceed) ==
    IF ~(proceed /\ n < Len(contexts)) THEN [raised |-> FALSE, prompt |-> prompt]
    ELSE IF contexts[n + 1].text = "None" THEN [raised |-> TRUE, prompt |-> prompt]
    ELSE IF RopeLen(prompt) + contexts[n + 1].len >= limit
         THEN AppendContexts(prompt, contexts, n + 1, FALSE)
         ELSE AppendContexts(Cat(prompt, PassageText(contexts[n + 1])),
                             contexts, n + 1, proceed)

\* RAG.retrieve, lines 361-377: delimiter + prompt + delimiter, unless the
\* loop raised
RetrievePrompt(contexts) ==
    LET loop == AppendContexts(<<Lit(" ")>>, contexts, 0, TRUE)
    IN  [raised |-> loop.raised,
         prompt |-> IF loop.raised THEN <<>>
                    ELSE <<Lit(delimiter)>> \o loop.prompt \o <<Lit(delimiter)>>]

\* f"\n    {retrieved_knowledge}\n    ": the system message carrying the knowledge
KnowledgeMessage(knowledge) ==
    [role |-> "system",
     content |-> <<Lit("\n    ")>> \o knowledge \o <<Lit("\n    ")>>]

\* wrap_text: a text of at most max_line_length characters is returned as
\* it is; a longer one is split at its newlines, each line is filled by
\* textwrap.fill (TextWrapper with its defaults) and the filled lines are
\* joined by newlines again. The text is given chunk by chunk, as
\* TextWrapper splits it: words, runs of blanks and Lit("\n"); a word has
\* no hyphen and no dash
wrap_text(reply) ==
    LET max_line_length == 100
        \* chunk.strip() == ''
        Blank(c) == c.len = 0 \/ c.text = " "
        \* chunk[:n] and chunk[n:]; the pieces of a literal are told apart by
        \* where they start in it
        Front(c, n) == [c EXCEPT !.len = n]
        Back(c, n) == [c EXCEPT !.len = c.len - n,
                                !.id = IF c.kind = "lit" THEN c.id + n ELSE c.id]
        \* text.split('\n')
        RECURSIVE Split(_, _)
        Split(rope, line) ==
            IF rope = <<>> THEN <<line>>
            ELSE IF rope[1].text = "\n" THEN <<line>> \o Split(Tail(rope), <<>>)
                 ELSE Split(Tail(rope), Append(line, rope[1]))
        \* _wrap_chunks, inner loop: how many leading chunks fit into room
        RECURSIVE Fit(_, _)
        Fit(cs, room) ==
            IF cs = <<>> \/ cs[1].len > room THEN 0
            ELSE 1 + Fit(Tail(cs), room - cs[1].len)
        \* _wrap_chunks, outer loop: a blank chunk at the start of a line
        \* but the first is dropped; chunks are taken while they fit; a
        \* chunk longer than a line is broken to fill the room that is left
        \* (_handle_long_word); a blank chunk at the end of the line is
        \* dropped; an empty line is not kept
        RECURSIVE Wrap(_, _)
        Wrap(cs, filled) ==
            IF cs = <<>> THEN filled
            ELSE
                LET start == IF Blank(cs[1]) /\ filled # <<>> THEN Tail(cs) ELSE cs
                    k == Fit(start, max_line_length)
                    fitted == SubSeq(start, 1, k)
                    rest == SubSeq(start, k + 1, Len(start))
                    long == rest # <<>> /\ rest[1].len > max_line_length
                    space_left == max_line_length - RopeLen(fitted)
                    cur_line == IF long THEN Append(fitted, Front(rest[1], space_left))
                                ELSE fitted
                    left == IF long THEN <<Back(rest[1], space_left)>> \o Tail(rest)
                            ELSE rest
                    kept == IF cur_line # <<>> /\ Blank(cur_line[Len(cur_line)])
                            THEN SubSeq(cur_line, 1, Len(cur_line) - 1)
                            ELSE cur_line
                IN  Wrap(left, IF kept # <<>> THEN Append(filled, kept) ELSE filled)
        reply_lines == Split(reply, <<>>)
    IN
        IF RopeLen(reply) <= max_line_length THEN reply
        ELSE JoinNewline([n \in 1..Len(reply_lines) |-> JoinNewline(Wrap(reply_lines[n], <<>>))])

\* ---------------------------------------------------------------- state

\* no coordination method in progress; __init__ does not assign qna_agent
CoordIdle ==
    /\ gpc = "idle"
    /\ qna_agent = "unset"
    /\ query_no = 0
    /\ all_doctor_info = <<>>
    /\ coord_failed = FALSE
    /\ coord_result = ([kind |-> "pending", doctor_info |-> "", schedule_info |-> ""])

NoPrompt == [grounded |-> FALSE, context |-> <<>>]

\* no question in progress
QnaIdle ==
    /\ qpc = "idle"
    /\ user_message = ""
    /\ rag_context = [kind |-> "None", text |-> <<>>]
    /\ system_prompt = NoPrompt
    /\ retrieval_calls = 0
    /\ generation_calls = 0
    /\ qna_reply = "pending"

\* the callers of the methods of RAG
Callers == {1, 2}

\* the RAG objects: one exists from the start, the other can be constructed
Objects == {1, 2}

Message(role, content) == [role |-> role, content |-> content]

\* chatContext and response_message once RAG.__init__ has run set_rag_env:
\* the system prompt, the seed query and the reply to it
ConstructedResponse == Message("assistant", <<Lit("r0")>>)

ConstructedContext ==
    <<Message("system", <<Lit("prompt")>>), Message("user", <<Lit("seed")>>),
      ConstructedResponse>>

\* the state RAG() leaves when the index answered the seed query with the
\* contexts seed and the generation service with r0: no call in progress,
\* the globals and the attributes of the object as set_rag_env assigned them
LegacyIdle(seed) ==
    /\ lpc = [t \in Callers |-> "idle"]
    /\ l_method = [t \in Callers |-> ""]
    /\ l_self = [t \in Callers |-> 0]
    /\ l_query = [t \in Callers |-> Message("", <<>>)]
    /\ l_res = [t \in Callers |-> <<>>]
    /\ l_prompt = [t \in Callers |-> <<>>]
    /\ l_count = [t \in Callers |-> 0]
    /\ l_text = [t \in Callers |-> <<>>]
    /\ l_files = [t \in Callers |-> 0]
    /\ l_sent = [t \in Callers |-> <<>>]
    /\ l_returned = [t \in Callers |-> [kind |-> "pending", value |-> <<>>]]
    /\ objects = {1}
    /\ chatContext = ConstructedContext
    /\ retrieved_knowledge = RetrievePrompt(seed).prompt
    /\ knowledge_message = KnowledgeMessage(RetrievePrompt(seed).prompt)
    /\ context_query_knowledge =
          <<ConstructedContext[1], ConstructedContext[2],
            KnowledgeMessage(RetrievePrompt(seed).prompt), ConstructedContext[2]>>
    /\ response = ConstructedResponse.content
    /\ response_message = ConstructedResponse
    /\ self_contexts = [o \in Objects |-> IF o = 1 THEN seed ELSE <<>>]
    /\ chatBot_Response = [o \in Objects |->
                              IF o = 1 THEN wrap_text(ConstructedResponse.content) ELSE <<>>]
    /\ turns = 0

\* the database sessions of the requests that run tools (get_db hands one
\* to each request)
Sessions == {1, 2}

\* the row ids the appointments table can hand out
AppointmentIds == {1, 2}

\* an empty appointments table and no tool running
ApptIdle ==
    /\ appointments = <<>>
    /\ apc = [s \in Sessions |-> "idle"]
    /\ tool_call = [s \in Sessions |->
                       [tool |-> "", patient_id |-> 0, appointment_id |-> 0,
                        updates |-> <<>>]]
    /\ loaded = [s \in Sessions |-> <<>>]
    /\ tool_data = [s \in Sessions |->
                       [action |-> "", success |-> FALSE, error |-> "",
                        appointment_id |-> 0, status |-> ""]]

\* no chat request in progress, both chat tables empty
ChatIdle ==
    /\ cpc = "idle"
    /\ request = ([patient_id |-> 0, message |-> <<>>, conversation_id |-> 0])
    /\ conversation = 0
    /\ ai_response = <<>>
    /\ chat_status = 0
    /\ conversations = <<>>
    /\ messages = <<>>
    /\ pending = <<>>
    /\ stored_before = 0

\* the components outside the one a specification exercises are at rest
OtherIdle ==
    /\ CoordIdle
    /\ QnaIdle
    /\ use_rag = FALSE
    /\ rag_service = FALSE
    /\ LegacyIdle(<<>>)
    /\ ApptIdle
    /\ ChatIdle

\* no retrieval in progress
RagIdle ==
    /\ rpc = "idle"
    /\ query_text = ""
    /\ top_k = 0
    /\ chunks = <<>>
    /\ context = <<>>
    /\ embed_calls = 0
    /\ index_calls = 0
    /\ query_outcome = ""

\* nlp_upsert has not returned
NoReturn == [kind |-> "pending", value |-> 0]

\* nlp_upsert ended by an exception: nothing is returned
Raised == [kind |-> "raised", value |-> 0]

\* no ingestion in progress
IngestIdle ==
    /\ ipc = "idle"
    /\ impl = "insert_script"
    /\ doc_len = 0
    /\ chunk_size = 0
    /\ stride = 0
    /\ line_i = 0
    /\ count = 0
    /\ window = <<0, 0>>
    /\ embedded = FALSE
    /\ embed_failures = 0
    /\ upserted = <<>>
    /\ returned = NoReturn

\* the router is not handling a message
RouterIdle ==
    /\ client = FALSE
    /\ min_confidence_for_rules = DispatchThreshold
    /\ pc = "idle"
    /\ text = <<>>
    /\ rule_result = NoResult
    /\ result = NoResult
    /\ decision = NoDecision
    /\ scheduling_hits = 0
    /\ qna_hits = 0
    /\ llm_calls = 0
    /\ llm_reply = NoReply

\* messages: at most MaxLen lexemes, words always separated
Texts ==
    {t \in UNION {[1..n -> (Words \cup Separators)] : n \in 0..MaxLen} :
        \A i \in 1..(Len(t) - 1) : ~(t[i] \in Words /\ t[i + 1] \in Words)}

\* RoutingAgent.__init__
Init ==
    /\ client \in BOOLEAN
    /\ min_confidence_for_rules \in ({Half, DispatchThreshold})
    /\ pc = "idle"
    /\ text = <<>>
    /\ rule_result = NoResult
    /\ result = NoResult
    /\ decision = NoDecision
    /\ scheduling_hits = 0
    /\ qna_hits = 0
    /\ llm_calls = 0
    /\ llm_reply = NoReply
    /\ RagIdle
    /\ IngestIdle
    /\ OtherIdle

\* route_decision(t) is entered
Call(t) ==
    /\ pc = "idle"
    /\ pc' = "called"
    /\ text' = t
    /\ UNCHANGED <<ragVars, ingestVars, otherVars>>
    /\ UNCHANGED <<client, min_confidence_for_rules, rule_result, result, decision,
                   scheduling_hits, qna_hits, llm_calls, llm_reply>>

\* hybrid_decision: `if not text`
Guard ==
    /\ pc = "called"
    /\ text = <<>>
    /\ result' = GuardResult
    /\ pc' = "classified"
    /\ UNCHANGED <<ragVars, ingestVars, otherVars>>
    /\ UNCHANGED <<client, min_confidence_for_rules, text, rule_result, decision,
                   scheduling_hits, qna_hits, llm_calls, llm_reply>>

\* hybrid_decision: the rule scan and the threshold test
RuleScan ==
    /\ pc = "called"
    /\ text # <<>>
    /\ LET r == _rule_scan(text)
       IN /\ rule_result' = r
          /\ scheduling_hits' = r.counts.scheduling
          /\ qna_hits' = r.counts.qna
          /\ IF BelowThreshold(r.confidence, min_confidence_for_rules)
             THEN pc' = "fallback" /\ result' = result
             ELSE pc' = "classified" /\ result' = r
    /\ UNCHANGED <<ragVars, ingestVars, otherVars>>
    /\ UNCHANGED <<client, min_confidence_for_rules, text, decision, llm_calls, llm_reply>>

\* _llm_classification without a client; hybrid_decision returns its result
LlmUnavailable ==
    /\ pc = "fallback"
    /\ ~client
    /\ result' = Prefer(Unavailable(text), rule_result)
    /\ pc' = "classified"
    /\ UNCHANGED <<ragVars, ingestVars, otherVars>>
    /\ UNCHANGED <<client, min_confidence_for_rules, text, rule_result, decision,
                   scheduling_hits, qna_hits, llm_calls, llm_reply>>

\* _llm_classification with a client: one chat.completions.create call;
\* hybrid_decision prefers its result unless the intent is empty
LlmFallback(reply) ==
    /\ pc = "fallback"
    /\ client
    /\ llm_calls' = llm_calls + 1
    /\ llm_reply' = reply
    /\ IF LlmRaises(reply)
       THEN pc' = "raised" /\ result' = result
       ELSE /\ pc' = "classified"
            /\ result' = Prefer(_llm_classification(text, reply), rule_result)
    /\ UNCHANGED <<ragVars, ingestVars, otherVars>>
    /\ UNCHANGED <<client, min_confidence_for_rules, text, rule_result, decision,
                   scheduling_hits, qna_hits>>

\* route_decision maps the classification to a dispatch target and returns
Route ==
    /\ pc = "classified"
    /\ decision' = Dispatch(text, result)
    /\ pc' = "done"
    /\ UNCHANGED <<ragVars, ingestVars, otherVars>>
    /\ UNCHANGED <<client, min_confidence_for_rules, text, rule_result, result,
                   scheduling_hits, qna_hits, llm_calls, llm_reply>>

\* the caller has the outcome; the agent keeps nothing of the message
Return ==
    /\ pc \in {"done", "raised"}
    /\ pc' = "idle"
    /\ text' = <<>>
    /\ rule_result' = NoResult
    /\ result' = NoResult
    /\ decision' = NoDecision
    /\ scheduling_hits' = 0
    /\ qna_hits' = 0
    /\ llm_calls' = 0
    /\ llm_reply' = NoReply
    /\ UNCHANGED <<ragVars, ingestVars, otherVars>>
    /\ UNCHANGED <<client, min_confidence_for_rules>>

Next ==
    \/ \E t \in Texts : Call(t)
    \/ Guard
    \/ RuleScan
    \/ LlmUnavailable
    \/ \E reply \in LLMReplies : LlmFallback(reply)
    \/ Route
    \/ Return

Spec == Init /\ [][Next]_vars

\* ------------------------------------------- the vote aggregation alone
\* lines 280-304 of _rule_scan applied to any pair of hit counts
VoteInit ==
    /\ client \in BOOLEAN
    /\ min_confidence_for_rules \in ({Half, DispatchThreshold})
    /\ pc = "votes"
    /\ text = <<>>
    /\ rule_result = NoResult
    /\ result = NoResult
    /\ decision = NoDecision
    /\ scheduling_hits \in 0..MaxVotes
    /\ qna_hits \in 0..MaxVotes
    /\ llm_calls = 0
    /\ llm_reply = NoReply
    /\ RagIdle
    /\ IngestIdle
    /\ OtherIdle

Vote ==
    /\ pc = "votes"
    /\ rule_result' = Aggregate(scheduling_hits, qna_hits, <<>>, text)
    /\ pc' = "voted"
    /\ UNCHANGED <<ragVars, ingestVars, otherVars>>
    /\ UNCHANGED <<client, min_confidence_for_rules, text, result, decision,
                   scheduling_hits, qna_hits, llm_calls, llm_reply>>

VoteSpec == VoteInit /\ [][(Vote)]_vars

\* ------------------------------------------------------ retrieval actions
RagInit ==
    /\ RouterIdle
    /\ RagIdle
    /\ IngestIdle
    /\ OtherIdle

\* RAGService.get_context_string(q, top_k=k) is entered and calls query
GetContextString(q, k) ==
    /\ rpc = "idle"
    /\ rpc' = "query"
    /\ query_text' = q
    /\ top_k' = k
    /\ UNCHANGED <<chunks, context, embed_calls, index_calls, query_outcome>>
    /\ UNCHANGED <<routerVars, ingestVars, otherVars>>

\* RAGService.query: blank text returns [] before any call
QueryGuard ==
    /\ rpc = "query"
    /\ BlankQuery(query_text)
    /\ chunks' = <<>>
    /\ query_outcome' = "blank"
    /\ rpc' = "queried"
    /\ UNCHANGED <<query_text, top_k, context, embed_calls, index_calls>>
    /\ UNCHANGED <<routerVars, ingestVars, otherVars>>

\* RAGService.query: _generate_embedding; a failure is caught and gives []
QueryEmbed(ok) ==
    /\ rpc = "query"
    /\ ~BlankQuery(query_text)
    /\ embed_calls' = embed_calls + 1
    /\ IF ok
       THEN rpc' = "embedded" /\ chunks' = chunks /\ query_outcome' = query_outcome
       ELSE rpc' = "queried" /\ chunks' = <<>> /\ query_outcome' = "embed_raises"
    /\ UNCHANGED <<query_text, top_k, context, index_calls>>
    /\ UNCHANGED <<routerVars, ingestVars, otherVars>>

\* RAGService.query: index.query and the extraction of the texts
QueryIndex(resp) ==
    /\ rpc = "embedded"
    /\ Entries(resp) <= top_k
    /\ index_calls' = index_calls + 1
    /\ query_outcome' = resp.kind
    /\ chunks' = QueryChunks(resp)
    /\ rpc' = "queried"
    /\ UNCHANGED <<query_text, top_k, context, embed_calls>>
    /\ UNCHANGED <<routerVars, ingestVars, otherVars>>

\* get_context_string formats what query returned
FormatContext ==
    /\ rpc = "queried"
    /\ context' = ContextString(chunks)
    /\ rpc' = "done"
    /\ UNCHANGED <<query_text, top_k, chunks, embed_calls, index_calls, query_outcome>>
    /\ UNCHANGED <<routerVars, ingestVars, otherVars>>

\* RAG.retrieve(query, name_space) is entered
Retrieve(q) ==
    /\ rpc = "idle"
    /\ rpc' = "r_embed"
    /\ query_text' = q
    /\ top_k' = 3
    /\ UNCHANGED <<chunks, context, embed_calls, index_calls, query_outcome>>
    /\ UNCHANGED <<routerVars, ingestVars, otherVars>>

\* RAG.retrieve: embeddings.create, outside any try block
RetrieveEmbed(ok) ==
    /\ rpc = "r_embed"
    /\ embed_calls' = embed_calls + 1
    /\ rpc' = IF ok THEN "r_embedded" ELSE "r_raised"
    /\ query_outcome' = IF ok THEN query_outcome ELSE "embed_raises"
    /\ UNCHANGED <<query_text, top_k, chunks, context, index_calls>>
    /\ UNCHANGED <<routerVars, ingestVars, otherVars>>

\* RAG.retrieve: index.query, self.contexts and the prompt. Subscripting a
\* response that is not a mapping with well-formed matches raises before
\* self.contexts is assigned, and so does a match without a text; a text
\* that is None raises in the loop, after the assignment
RetrieveQuery(resp) ==
    /\ rpc = "r_embedded"
    /\ Entries(resp) <= top_k
    /\ index_calls' = index_calls + 1
    /\ IF resp.kind # "matches"
       THEN /\ rpc' = "r_raised"
            /\ query_outcome' = resp.kind
            /\ self_contexts' = self_contexts
            /\ context' = context
       ELSE IF Contexts(resp.matches).raised
       THEN /\ rpc' = "r_raised"
            /\ query_outcome' = "KeyError"
            /\ self_contexts' = self_contexts
            /\ context' = context
       ELSE /\ self_contexts' = [self_contexts EXCEPT ![1] = Contexts(resp.matches).list]
            /\ IF RetrievePrompt(Contexts(resp.matches).list).raised
               THEN /\ rpc' = "r_raised"
                    /\ query_outcome' = "TypeError"
                    /\ context' = context
               ELSE /\ rpc' = "r_done"
                    /\ query_outcome' = resp.kind
                    /\ context' = RetrievePrompt(Contexts(resp.matches).list).prompt
    /\ UNCHANGED <<query_text, top_k, chunks, embed_calls>>
    /\ UNCHANGED <<lpc, l_method, l_self, l_query, l_res, l_prompt, l_count, l_text,
                   l_files, l_sent, l_returned, objects, chatContext,
                   retrieved_knowledge, knowledge_message, context_query_knowledge,
                   response, response_message, chatBot_Response, turns>>
    /\ UNCHANGED <<routerVars, ingestVars, coordVars, qnaVars, apptVars, chatVars>>

\* the caller has the string (or the exception); self.contexts stays
RagReturn ==
    /\ rpc \in {"done", "r_done", "r_raised"}
    /\ rpc' = "idle"
    /\ query_text' = ""
    /\ top_k' = 0
    /\ chunks' = <<>>
    /\ context' = <<>>
    /\ embed_calls' = 0
    /\ index_calls' = 0
    /\ query_outcome' = ""
    /\ UNCHANGED <<routerVars, ingestVars, otherVars>>

\* RAGService, the retrieval service of the application
RagNext ==
    \/ \E q \in QueryKinds, k \in 1..MaxTopK : GetContextString(q, k)
    \/ QueryGuard
    \/ \E ok \in BOOLEAN : QueryEmbed(ok)
    \/ \E resp \in IndexResponses : QueryIndex(resp)
    \/ FormatContext
    \/ RagReturn

RagSpec == RagInit /\ [][RagNext]_vars

\* RAG.retrieve called, one call after the other, on the object that was
\* constructed
RetrieveNext ==
    \/ \E q \in QueryKinds : Retrieve(q)
    \/ \E ok \in BOOLEAN : RetrieveEmbed(ok)
    \/ \E resp \in IndexResponses : RetrieveQuery(resp)
    \/ RagReturn

RetrieveSpec == RagInit /\ [][RetrieveNext]_vars

\* ------------------------------------------------------------- ingestion
MaxLines == 28

MaxFailures == 2

\* insert_script.py module constants
DEFAULT_CHUNK_SIZE == 9

DEFAULT_STRIDE == 3

Min(a, b) == IF a <= b THEN a ELSE b

\* i_begin = max(0, i - stride)
i_begin(at, s) == Max(0, at - s)

\* i_end = min(len(doc), i_begin + chunk_size)
i_end(at, s, size, n) == Min(n, i_begin(at, s) + size)

\* f"{nlp_id}_{count}"
vector_id(n) ==
    LET nlp_id == "doc"
    IN
        nlp_id \o "_" \o ToString(n)

\* metadata["chunk_index"] = count + 1, taken before count is incremented
chunk_index(n) == n + 1

AfterEmbedFailureSkipsChunk == "skip"

\* a failed embeddings.create leads into the `while not done` loop
AfterEmbedFailure == "sleep"

IngestInit ==
    /\ RouterIdle
    /\ RagIdle
    /\ IngestIdle
    /\ OtherIdle

\* nlp_upsert is called on a document of n lines; extract_clean_120_list
\* (and pc.Index in insert_script.py) stand outside any try block, so the
\* call raises when one of them does
IngestCall(im, n, p, ok) ==
    /\ ipc = "idle"
    /\ ipc' = IF ok THEN "loop" ELSE "raised"
    /\ impl' = im
    /\ doc_len' = n
    /\ chunk_size' = p[1]
    /\ stride' = p[2]
    /\ line_i' = 0
    /\ count' = 0
    /\ upserted' = <<>>
    /\ returned' = IF ok THEN NoReturn ELSE Raised
    /\ UNCHANGED <<window, embedded, embed_failures>>

\* the next i of range(0, len(doc), chunk_size): the chunk's window
LoopEnter ==
    /\ ipc = "loop"
    /\ line_i < doc_len
    /\ window' = <<i_begin(line_i, stride), i_end(line_i, stride, chunk_size, doc_len)>>
    /\ embedded' = FALSE
    /\ embed_failures' = 0
    /\ ipc' = "embed"
    /\ UNCHANGED <<impl, doc_len, chunk_size, stride, line_i, count, upserted, returned>>
    /\ UNCHANGED <<routerVars, ragVars, otherVars>>

\* the range is exhausted: nlp_upsert returns
LoopExit ==
    LET \* insert_script.nlp_upsert returns count; RAG.nlp_upsert returns nothing
        ReturnValue(im, n) ==
            IF im = "insert_script"
            THEN [kind |-> "int", value |-> n]
            ELSE [kind |-> "None", value |-> 0]
    IN
        /\ ipc = "loop"
        /\ line_i >= doc_len
        /\ returned' = ReturnValue(impl, count)
        /\ ipc' = "done"
        /\ UNCHANGED <<impl, doc_len, chunk_size, stride, line_i, count, window,
                       embedded, embed_failures, upserted>>
        /\ UNCHANGED <<routerVars, ragVars, otherVars>>

\* embeddings.create succeeds, at the first attempt or at a retry; reading
\* res.data[0].embedding follows outside the try block and raises on a
\* response without data
EmbedOk(usable) ==
    /\ ipc \in {"embed", "retry"}
    /\ embedded' = usable
    /\ ipc' = IF usable THEN "upsert" ELSE "raised"
    /\ returned' = IF usable THEN returned ELSE Raised
    /\ UNCHANGED <<impl, doc_len, chunk_size, stride, line_i, count, window,
                   embed_failures, upserted>>
    /\ UNCHANGED <<routerVars, ragVars, otherVars>>

\* embeddings.create raises, at the first attempt or at a retry
EmbedFail ==
    /\ ipc \in {"embed", "retry"}
    /\ embed_failures' = Min(embed_failures + 1, MaxFailures)
    /\ IF AfterEmbedFailure = "sleep"
       THEN ipc' = "sleep" /\ line_i' = line_i
       ELSE ipc' = "loop" /\ line_i' = line_i + chunk_size
    /\ UNCHANGED <<impl, doc_len, chunk_size, stride, count, window,
                   embedded, upserted, returned>>
    /\ UNCHANGED <<routerVars, ragVars, otherVars>>

\* time.sleep(10), then the retry
RetrySleep ==
    /\ ipc = "sleep"
    /\ ipc' = "retry"
    /\ UNCHANGED <<impl, doc_len, chunk_size, stride, line_i, count, window,
                   embedded, embed_failures, upserted, returned>>
    /\ UNCHANGED <<routerVars, ragVars, otherVars>>

\* metadata, count += 1, index.upsert of one vector; index.upsert stands
\* outside any try block: when it raises, count is already incremented, the
\* vector is not stored and nlp_upsert raises
Upsert(ok) ==
    LET \* the metadata stored with a vector, as its keys and its chunk_index
        Metadata(im, n) ==
            IF im = "insert_script"
            THEN [keys |-> {"text", "source_file", "chunk_index"}, chunk_index |-> chunk_index(n)]
            ELSE [keys |-> {"text"}, chunk_index |-> 0]
    IN
        /\ ipc = "upsert"
        /\ count' = count + 1
        /\ IF ok
           THEN /\ upserted' = Append(upserted,
                                      [id |-> vector_id(count + 1),
                                       metadata |-> Metadata(impl, count),
                                       lines |-> window,
                                       embedded |-> embedded])
                /\ line_i' = line_i + chunk_size
                /\ ipc' = "loop"
                /\ returned' = returned
           ELSE /\ upserted' = upserted
                /\ line_i' = line_i
                /\ ipc' = "raised"
                /\ returned' = Raised
        /\ UNCHANGED <<impl, doc_len, chunk_size, stride, window, embedded,
                       embed_failures>>
        /\ UNCHANGED <<routerVars, ragVars, otherVars>>

\* the caller has the return value, or the exception (main catches it and
\* goes on to the next file; build_RAG lets it pass)
IngestReturn ==
    /\ ipc \in {"done", "raised"}
    /\ ipc' = "idle"
    /\ impl' = "insert_script"
    /\ doc_len' = 0
    /\ chunk_size' = 0
    /\ stride' = 0
    /\ line_i' = 0
    /\ count' = 0
    /\ window' = <<0, 0>>
    /\ embedded' = FALSE
    /\ embed_failures' = 0
    /\ upserted' = <<>>
    /\ returned' = NoReturn

IngestNext ==
    \/ \E im \in {"insert_script", "medical_rag"}, n \in 0..MaxLines,
          p \in {<<DEFAULT_CHUNK_SIZE, DEFAULT_STRIDE>>, <<4, 1>>, <<2, 1>>},
          ok \in BOOLEAN :
            IngestCall(im, n, p, ok) /\ UNCHANGED <<routerVars, ragVars, otherVars>>
    \/ LoopEnter
    \/ LoopExit
    \/ \E usable \in BOOLEAN : EmbedOk(usable)
    \/ EmbedFail
    \/ RetrySleep
    \/ \E ok \in BOOLEAN : Upsert(ok)
    \/ IngestReturn /\ UNCHANGED <<routerVars, ragVars, otherVars>>

IngestSpec == IngestInit /\ [][IngestNext]_vars

\* the loop, the sleep and the upsert always go on; the embedding service,
\* asked again and again, succeeds in the end
IngestLiveSpec ==
    /\ IngestInit
    /\ [][IngestNext]_vars
    /\ WF_vars(LoopEnter)
    /\ WF_vars(LoopExit)
    /\ WF_vars(RetrySleep)
    /\ WF_vars(\E ok \in BOOLEAN : Upsert(ok))
    /\ SF_vars(\E usable \in BOOLEAN : EmbedOk(usable))

\* ---------------------------------------------------------- coordination
\* get_appointment_context asks four fixed queries
NumQueries == 4

\* `len(response) > 100`: only substantial responses are kept
SubstantialLength == 100

\* what qna_agent.generate_response can do, as the length of the text it
\* returns; "raises" and "None" stand for an exception and for None
AgentResponses ==
    {[kind |-> "raises", len |-> 0], [kind |-> "None", len |-> 0]}
    \cup {[kind |-> "text", len |-> n] : n \in {0, 100, 101, 500}}

\* reading self.qna_agent: the attribute exists only once it was assigned
AttributeExists(attr) == attr # "unset"

AvailableUponRequest ==
    [kind |-> "dict",
     doctor_info |-> "Doctor information available upon request.",
     schedule_info |-> "Schedule information available upon request."]

TemporarilyUnavailable ==
    [kind |-> "dict",
     doctor_info |-> "Doctor information temporarily unavailable.",
     schedule_info |-> "Schedule information temporarily unavailable."]

ScheduleUponRequest ==
    [kind |-> "str", doctor_info |-> "",
     schedule_info |-> "Schedule information available upon request."]

\* f"Schedule for {doctor_name} temporarily unavailable."
ScheduleUnavailable ==
    [kind |-> "str", doctor_info |-> "",
     schedule_info |-> "Schedule for Dr. X temporarily unavailable."]

CoordInit ==
    /\ RouterIdle
    /\ RagIdle
    /\ IngestIdle
    /\ OtherIdle

\* the application assigns agent.qna_agent after construction
Attach(a) ==
    /\ gpc = "idle"
    /\ qna_agent' = a
    /\ UNCHANGED <<gpc, query_no, all_doctor_info, coord_failed, coord_result>>
    /\ UNCHANGED (<<routerVars, ragVars, ingestVars, qnaVars, legacyVars, apptVars, chatVars>>)

\* get_appointment_context: `if not self.qna_agent`, outside the try block
GetAppointmentContext ==
    /\ gpc = "idle"
    /\ IF ~AttributeExists(qna_agent)
       THEN gpc' = "raised" /\ coord_result' = coord_result
       ELSE IF qna_agent = "None"
            THEN gpc' = "done" /\ coord_result' = AvailableUponRequest
            ELSE gpc' = "context" /\ coord_result' = coord_result
    /\ UNCHANGED <<qna_agent, query_no, all_doctor_info, coord_failed>>
    /\ UNCHANGED (<<routerVars, ragVars, ingestVars, qnaVars, legacyVars, apptVars, chatVars>>)

\* get_appointment_context: one generate_response call of the loop
ContextQuery(resp) ==
    LET \* `if response and len(response) > 100`
        Substantial(r) == r.kind = "text" /\ r.len > SubstantialLength
    IN
        /\ gpc = "context"
        /\ query_no < NumQueries
        /\ IF resp.kind = "raises"
           THEN /\ gpc' = "done"
                /\ coord_failed' = TRUE
                /\ coord_result' = TemporarilyUnavailable
                /\ UNCHANGED <<query_no, all_doctor_info>>
           ELSE /\ query_no' = query_no + 1
                /\ all_doctor_info' = IF Substantial(resp)
                                      THEN Append(all_doctor_info, resp.len)
                                      ELSE all_doctor_info
                /\ UNCHANGED <<gpc, coord_failed, coord_result>>
        /\ UNCHANGED qna_agent
        /\ UNCHANGED (<<routerVars, ragVars, ingestVars, qnaVars, legacyVars, apptVars, chatVars>>)

\* get_appointment_context: join the responses and return
ContextReturn ==
    /\ gpc = "context"
    /\ query_no = NumQueries
    /\ coord_result' = ([kind |-> "dict", doctor_info |-> "joined", schedule_info |-> "Available through doctor information above"])
    /\ gpc' = "done"
    /\ UNCHANGED <<qna_agent, query_no, all_doctor_info, coord_failed>>
    /\ UNCHANGED (<<routerVars, ragVars, ingestVars, qnaVars, legacyVars, apptVars, chatVars>>)

\* get_doctor_schedule: `if not self.qna_agent`, outside the try block
GetDoctorSchedule ==
    /\ gpc = "idle"
    /\ IF ~AttributeExists(qna_agent)
       THEN gpc' = "raised" /\ coord_result' = coord_result
       ELSE IF qna_agent = "None"
            THEN gpc' = "done" /\ coord_result' = ScheduleUponRequest
            ELSE gpc' = "schedule" /\ coord_result' = coord_result
    /\ UNCHANGED <<qna_agent, query_no, all_doctor_info, coord_failed>>
    /\ UNCHANGED (<<routerVars, ragVars, ingestVars, qnaVars, legacyVars, apptVars, chatVars>>)

\* get_doctor_schedule: the generate_response call; what it returns is
\* returned as received (line 481), None included
ScheduleQuery(resp) ==
    /\ gpc = "schedule"
    /\ coord_failed' = (resp.kind = "raises")
    /\ coord_result' =
          IF resp.kind = "raises" THEN ScheduleUnavailable
          ELSE IF resp.kind = "None"
               THEN [kind |-> "None", doctor_info |-> "", schedule_info |-> ""]
               ELSE [kind |-> "str", doctor_info |-> "", schedule_info |-> "response"]
    /\ gpc' = "done"
    /\ UNCHANGED <<qna_agent, query_no, all_doctor_info>>
    /\ UNCHANGED (<<routerVars, ragVars, ingestVars, qnaVars, legacyVars, apptVars, chatVars>>)

\* the caller has the value (or the exception)
CoordReturn ==
    /\ gpc \in {"done", "raised"}
    /\ gpc' = "idle"
    /\ query_no' = 0
    /\ all_doctor_info' = <<>>
    /\ coord_failed' = FALSE
    /\ coord_result' = ([kind |-> "pending", doctor_info |-> "", schedule_info |-> ""])
    /\ UNCHANGED qna_agent
    /\ UNCHANGED (<<routerVars, ragVars, ingestVars, qnaVars, legacyVars, apptVars, chatVars>>)

CoordNext ==
    \/ \E a \in {"None", "agent"} : Attach(a)
    \/ GetAppointmentContext
    \/ \E resp \in AgentResponses : ContextQuery(resp)
    \/ ContextReturn
    \/ GetDoctorSchedule
    \/ \E resp \in AgentResponses : ScheduleQuery(resp)
    \/ CoordReturn

CoordSpec == CoordInit /\ [][CoordNext]_vars

\* ---------------------------------------------------- question answering
\* generate_response: `not user_message or not user_message.strip()`
BlankMessageEmptyOnly(m) == m = ""

BlankMessage(m) == m \in {"", " "}

ContextOf(rope) == [kind |-> "str", text |-> rope]

\* _build_system_prompt: `if rag_context` adds the context and the
\* instructions for using it to the base prompt
_build_system_prompt(c) ==
    IF c.kind = "str" /\ c.text # <<>>
    THEN [grounded |-> TRUE, context |-> c.text]
    ELSE [grounded |-> FALSE, context |-> <<>>]

\* QnaAgent.__init__: RAG is either off, or on with a service
QnaInit ==
    /\ RouterIdle
    /\ ChatIdle
    /\ RagIdle
    /\ IngestIdle
    /\ CoordIdle
    /\ LegacyIdle(<<>>)
    /\ ApptIdle
    /\ QnaIdle
    /\ use_rag \in BOOLEAN
    /\ rag_service = use_rag

\* generate_response(m) is entered
GenerateResponse(m) ==
    /\ qpc = "idle"
    /\ rpc = "idle"
    /\ qpc' = "entered"
    /\ user_message' = m
    /\ UNCHANGED <<use_rag, rag_service, rag_context, system_prompt,
                   retrieval_calls, generation_calls, qna_reply>>
    /\ UNCHANGED ragVars
    /\ UNCHANGED (<<routerVars, ingestVars, coordVars, legacyVars, apptVars, chatVars>>)

\* the blank-question reply, before the try block
AskForQuestion ==
    /\ qpc = "entered"
    /\ BlankMessage(user_message)
    /\ qna_reply' = "ask"
    /\ qpc' = "done"
    /\ UNCHANGED <<user_message, use_rag, rag_service, rag_context, system_prompt,
                   retrieval_calls, generation_calls>>
    /\ UNCHANGED ragVars
    /\ UNCHANGED (<<routerVars, ingestVars, coordVars, legacyVars, apptVars, chatVars>>)

\* step 1 when RAG is off: rag_context stays None
SkipRetrieval ==
    /\ qpc = "entered"
    /\ ~BlankMessage(user_message)
    /\ ~(use_rag /\ rag_service)
    /\ rag_context' = ([kind |-> "None", text |-> <<>>])
    /\ qpc' = "prompt"
    /\ UNCHANGED <<user_message, use_rag, rag_service, system_prompt,
                   retrieval_calls, generation_calls, qna_reply>>
    /\ UNCHANGED ragVars
    /\ UNCHANGED (<<routerVars, ingestVars, coordVars, legacyVars, apptVars, chatVars>>)

\* step 1 when RAG is on: self.rag_service.get_context_string(user_message, top_k=3)
CallRetrieval ==
    /\ qpc = "entered"
    /\ ~BlankMessage(user_message)
    /\ use_rag /\ rag_service
    /\ rpc = "idle"
    /\ retrieval_calls' = retrieval_calls + 1
    /\ rpc' = "query"
    /\ query_text' = user_message
    /\ top_k' = 3
    /\ qpc' = "retrieving"
    /\ UNCHANGED <<chunks, context, embed_calls, index_calls, query_outcome>>
    /\ UNCHANGED <<user_message, use_rag, rag_service, rag_context, system_prompt,
                   generation_calls, qna_reply>>
    /\ UNCHANGED (<<routerVars, ingestVars, coordVars, legacyVars, apptVars, chatVars>>)

\* get_context_string has returned its string
RetrievalReturns ==
    /\ qpc = "retrieving"
    /\ rpc = "done"
    /\ rag_context' = ContextOf(context)
    /\ qpc' = "prompt"
    /\ UNCHANGED <<user_message, use_rag, rag_service, system_prompt,
                   retrieval_calls, generation_calls, qna_reply>>
    /\ UNCHANGED ragVars
    /\ UNCHANGED (<<routerVars, ingestVars, coordVars, legacyVars, apptVars, chatVars>>)

\* steps 2 to 4: the system prompt, the messages and the generation call;
\* an exception, or a reply without content, gives the apology
Generate(outcome) ==
    /\ qpc = "prompt"
    /\ system_prompt' = _build_system_prompt(rag_context)
    /\ generation_calls' = generation_calls + 1
    /\ qna_reply' = IF outcome = "text" THEN "answer" ELSE "apology"
    /\ qpc' = "done"
    /\ UNCHANGED <<user_message, use_rag, rag_service, rag_context, retrieval_calls>>
    /\ UNCHANGED ragVars
    /\ UNCHANGED (<<routerVars, ingestVars, coordVars, legacyVars, apptVars, chatVars>>)

\* the caller has the reply
QnaReturn ==
    /\ qpc = "done"
    /\ qpc' = "idle"
    /\ user_message' = ""
    /\ rag_context' = ([kind |-> "None", text |-> <<>>])
    /\ system_prompt' = NoPrompt
    /\ retrieval_calls' = 0
    /\ generation_calls' = 0
    /\ qna_reply' = "pending"
    /\ rpc' = "idle"
    /\ query_text' = ""
    /\ top_k' = 0
    /\ chunks' = <<>>
    /\ context' = <<>>
    /\ embed_calls' = 0
    /\ index_calls' = 0
    /\ query_outcome' = ""
    /\ UNCHANGED <<use_rag, rag_service>>
    /\ UNCHANGED (<<routerVars, ingestVars, coordVars, legacyVars, apptVars, chatVars>>)

QnaNext ==
    \/ \E m \in QueryKinds : GenerateResponse(m)
    \/ AskForQuestion
    \/ SkipRetrieval
    \/ CallRetrieval
    \/ \E ok \in BOOLEAN : QueryEmbed(ok)
    \/ \E resp \in IndexResponses : QueryIndex(resp)
    \/ FormatContext
    \/ RetrievalReturns
    \/ \E outcome \in ({"raises", "no_content", "text"}) : Generate(outcome)
    \/ QnaReturn

QnaSpec == QnaInit /\ [][QnaNext]_vars

\* ---------------------------------------------------- conversational RAG
MaxTurns == 2

MaxFiles == 2

\* medical_rag.py module global: the number of tmp{k}.txt knowledge files
NUM_KNOWLEDGE_TXT == 68

\* build_RAG calls nlp_upsert for one file and then for each tmp{k}.txt
KnowledgeFiles == Min(1 + NUM_KNOWLEDGE_TXT, MaxFiles)

\* one RAG object constructed; the index answered its seed query with one
\* passage or with none
LegacyInit ==
    /\ RouterIdle
    /\ ChatIdle
    /\ RagIdle
    /\ IngestIdle
    /\ CoordIdle
    /\ QnaIdle
    /\ use_rag = FALSE
    /\ rag_service = FALSE
    /\ ApptIdle
    /\ \E seed \in {<<>>, <<[id |-> 1, text |-> "str", len |-> 1]>>} : LegacyIdle(seed)

\* RAG(): __init__ is entered and calls build_RAG (line 116); nothing is
\* assigned yet
Construct(t, o) ==
    /\ lpc[t] = "idle"
    /\ o \notin objects
    /\ \A u \in Callers : lpc[u] # "idle" => l_self[u] # o
    /\ turns < MaxTurns
    /\ turns' = turns + 1
    /\ l_method' = [l_method EXCEPT ![t] = "__init__"]
    /\ l_self' = [l_self EXCEPT ![t] = o]
    /\ lpc' = [lpc EXCEPT ![t] = "init"]
    /\ UNCHANGED <<l_query, l_res, l_prompt, l_count, l_text, l_files, l_sent,
                   l_returned, objects, chatContext, retrieved_knowledge,
                   knowledge_message, context_query_knowledge, response,
                   response_message, self_contexts, chatBot_Response>>
    /\ UNCHANGED (<<routerVars, ragVars, ingestVars, coordVars, qnaVars, apptVars, chatVars>>)

\* build_RAG, lines 170-213: the clients, a test embedding, the index looked
\* up (and created when missing, where the unimported name ServerlessSpec
\* raises NameError), the wait for the index to be ready (which only goes on
\* once it is), pc.Index and describe_index_stats. Each of the service calls
\* can raise, and then RAG() raises with nothing assigned
BuildRAG(t, ok) ==
    /\ lpc[t] = "init"
    /\ lpc' = [lpc EXCEPT ![t] = IF ok THEN "files" ELSE "raised"]
    /\ UNCHANGED <<l_method, l_self, l_query, l_res, l_prompt, l_count, l_text,
                   l_files, l_sent, l_returned, objects, chatContext,
                   retrieved_knowledge, knowledge_message, context_query_knowledge,
                   response, response_message, self_contexts, chatBot_Response, turns>>
    /\ UNCHANGED (<<routerVars, ragVars, ingestVars, coordVars, qnaVars, apptVars, chatVars>>)

\* build_RAG, lines 219-226: self.nlp_upsert is called for the next
\* knowledge file, with chunk size 9 and stride 3
BuildUpsert(t, n, ok) ==
    /\ lpc[t] = "files"
    /\ l_files[t] < KnowledgeFiles
    /\ IngestCall("medical_rag", n, <<9, 3>>, ok)
    /\ lpc' = [lpc EXCEPT ![t] = "upserting"]
    /\ UNCHANGED <<l_method, l_self, l_query, l_res, l_prompt, l_count, l_text,
                   l_files, l_sent, l_returned, objects, chatContext,
                   retrieved_knowledge, knowledge_message, context_query_knowledge,
                   response, response_message, self_contexts, chatBot_Response, turns>>
    /\ UNCHANGED <<routerVars, ragVars, coordVars, qnaVars, apptVars, chatVars>>

\* nlp_upsert returns to build_RAG, which goes on to the next file, or it
\* raised and so does RAG()
BuildUpsertReturn(t) ==
    /\ lpc[t] = "upserting"
    /\ IngestReturn
    /\ lpc' = [lpc EXCEPT ![t] = IF ipc = "raised" THEN "raised" ELSE "files"]
    /\ l_files' = [l_files EXCEPT ![t] = l_files[t] + 1]
    /\ UNCHANGED <<l_method, l_self, l_query, l_res, l_prompt, l_count, l_text,
                   l_sent, l_returned, objects, chatContext, retrieved_knowledge,
                   knowledge_message, context_query_knowledge, response,
                   response_message, self_contexts, chatBot_Response, turns>>
    /\ UNCHANGED <<routerVars, ragVars, coordVars, qnaVars, apptVars, chatVars>>

\* the files are done: build_RAG returns, __init__ rebinds the module global
\* chatContext to the system prompt alone (line 118), sets
\* self.chatBot_Response (line 130) and enters set_rag_env on the new object
InitContext(t) ==
    /\ lpc[t] = "files"
    /\ l_files[t] = KnowledgeFiles
    /\ chatContext' = <<ConstructedContext[1]>>
    /\ chatBot_Response' = [chatBot_Response EXCEPT ![l_self[t]] = <<>>]
    /\ l_query' = [l_query EXCEPT ![t] = ConstructedContext[2]]
    /\ lpc' = [lpc EXCEPT ![t] = "entered"]
    /\ UNCHANGED <<l_method, l_self, l_res, l_prompt, l_count, l_text, l_files,
                   l_sent, l_returned, objects, retrieved_knowledge,
                   knowledge_message, context_query_knowledge, response,
                   response_message, self_contexts, turns>>
    /\ UNCHANGED (<<routerVars, ragVars, ingestVars, coordVars, qnaVars, apptVars, chatVars>>)

\* set_rag_env() called on a constructed object
SetRagEnv(t, o) ==
    /\ lpc[t] = "idle"
    /\ o \in objects
    /\ turns < MaxTurns
    /\ turns' = turns + 1
    /\ l_method' = [l_method EXCEPT ![t] = "set_rag_env"]
    /\ l_self' = [l_self EXCEPT ![t] = o]
    /\ l_query' = [l_query EXCEPT ![t] = ConstructedContext[2]]
    /\ lpc' = [lpc EXCEPT ![t] = "entered"]
    /\ UNCHANGED <<l_res, l_prompt, l_count, l_text, l_files, l_sent, l_returned,
                   objects, chatContext, retrieved_knowledge, knowledge_message,
                   context_query_knowledge, response, response_message,
                   self_contexts, chatBot_Response>>
    /\ UNCHANGED (<<routerVars, ragVars, ingestVars, coordVars, qnaVars, apptVars, chatVars>>)

\* set_rag_env, line 240: the seed query is appended to the global chatContext
AppendSeedQuery(t) ==
    /\ lpc[t] = "entered"
    /\ chatContext' = Append(chatContext, l_query[t])
    /\ lpc' = [lpc EXCEPT ![t] = "appended"]
    /\ UNCHANGED <<l_method, l_self, l_query, l_res, l_prompt, l_count, l_text,
                   l_files, l_sent, l_returned, objects, retrieved_knowledge,
                   knowledge_message, context_query_knowledge, response,
                   response_message, self_contexts, chatBot_Response, turns>>
    /\ UNCHANGED (<<routerVars, ragVars, ingestVars, coordVars, qnaVars, apptVars, chatVars>>)

\* query_RAG(q) up to line 289: query + " " is wrapped in a user message,
\* which is appended to the global chatContext
QueryRAG(t, o, q) ==
    /\ lpc[t] = "idle"
    /\ o \in objects
    /\ turns < MaxTurns
    /\ turns' = turns + 1
    /\ l_method' = [l_method EXCEPT ![t] = "query_RAG"]
    /\ l_self' = [l_self EXCEPT ![t] = o]
    /\ l_query' = [l_query EXCEPT ![t] = Message("user", <<Lit("\n    " \o q \o " \n    ")>>)]
    /\ chatContext' = Append(chatContext, Message("user", <<Lit("\n    " \o q \o " \n    ")>>))
    /\ lpc' = [lpc EXCEPT ![t] = "appended"]
    /\ UNCHANGED <<l_res, l_prompt, l_count, l_text, l_files, l_sent, l_returned,
                   objects, retrieved_knowledge, knowledge_message,
                   context_query_knowledge, response, response_message,
                   self_contexts, chatBot_Response>>
    /\ UNCHANGED (<<routerVars, ragVars, ingestVars, coordVars, qnaVars, apptVars, chatVars>>)

\* lines 241-257 and 291-308: embedding and index query; the texts of the
\* matches go to self.contexts. ok = FALSE is a service call that raises
LegacyQuery(t, ok, m) ==
    /\ lpc[t] = "appended"
    /\ IF ok /\ ~Contexts(m).raised
       THEN /\ self_contexts' = [self_contexts EXCEPT ![l_self[t]] = Contexts(m).list]
            /\ lpc' = [lpc EXCEPT ![t] = "queried"]
       ELSE /\ self_contexts' = self_contexts
            /\ lpc' = [lpc EXCEPT ![t] = "raised"]
    /\ UNCHANGED <<l_method, l_self, l_query, l_res, l_prompt, l_count, l_text,
                   l_files, l_sent, l_returned, objects, chatContext,
                   retrieved_knowledge, knowledge_message, context_query_knowledge,
                   response, response_message, chatBot_Response, turns>>
    /\ UNCHANGED (<<routerVars, ragVars, ingestVars, coordVars, qnaVars, apptVars, chatVars>>)

\* retrieve, lines 340-365: a second embedding and index query, again
\* assigned to self.contexts; then prompt = " " and count = 0
LegacyRetrieveQuery(t, ok, m) ==
    /\ lpc[t] = "queried"
    /\ IF ok /\ ~Contexts(m).raised
       THEN /\ self_contexts' = [self_contexts EXCEPT ![l_self[t]] = Contexts(m).list]
            /\ l_res' = [l_res EXCEPT ![t] = m]
            /\ l_prompt' = [l_prompt EXCEPT ![t] = <<Lit(" ")>>]
            /\ l_count' = [l_count EXCEPT ![t] = 0]
            /\ lpc' = [lpc EXCEPT ![t] = "loop_test"]
       ELSE /\ self_contexts' = self_contexts
            /\ l_res' = l_res
            /\ l_prompt' = l_prompt
            /\ l_count' = l_count
            /\ lpc' = [lpc EXCEPT ![t] = "raised"]
    /\ UNCHANGED <<l_method, l_self, l_query, l_text, l_files, l_sent, l_returned,
                   objects, chatContext, retrieved_knowledge, knowledge_message,
                   context_query_knowledge, response, response_message,
                   chatBot_Response, turns>>
    /\ UNCHANGED (<<routerVars, ragVars, ingestVars, coordVars, qnaVars, apptVars, chatVars>>)

\* retrieve, line 366: `while proceed and count < len(self.contexts)`, with
\* self.contexts as it is now; when the loop is left the delimiters are put
\* around prompt (line 375)
RetrieveTest(t) ==
    /\ lpc[t] = "loop_test"
    /\ IF l_count[t] < Len(self_contexts[l_self[t]])
       THEN /\ l_prompt' = l_prompt
            /\ lpc' = [lpc EXCEPT ![t] = "loop_if"]
       ELSE /\ l_prompt' = [l_prompt EXCEPT ![t] =
                               <<Lit(delimiter)>> \o l_prompt[t] \o <<Lit(delimiter)>>]
            /\ lpc' = [lpc EXCEPT ![t] = "prompt_built"]
    /\ UNCHANGED <<l_method, l_self, l_query, l_res, l_count, l_text, l_files,
                   l_sent, l_returned, objects, chatContext, retrieved_knowledge,
                   knowledge_message, context_query_knowledge, response,
                   response_message, self_contexts, chatBot_Response, turns>>
    /\ UNCHANGED (<<routerVars, ragVars, ingestVars, coordVars, qnaVars, apptVars, chatVars>>)

\* retrieve, lines 367-368: self.contexts[count] is read from the list as
\* it is now: IndexError when the list has become shorter, TypeError when
\* the text is None; a text that does not fit sets proceed to False, which
\* ends the loop after count += 1
RetrieveIf(t) ==
    /\ lpc[t] = "loop_if"
    /\ IF l_count[t] >= Len(self_contexts[l_self[t]])
       THEN /\ l_prompt' = l_prompt
            /\ l_count' = l_count
            /\ lpc' = [lpc EXCEPT ![t] = "raised"]
       ELSE IF self_contexts[l_self[t]][l_count[t] + 1].text = "None"
            THEN /\ l_prompt' = l_prompt
                 /\ l_count' = l_count
                 /\ lpc' = [lpc EXCEPT ![t] = "raised"]
            ELSE IF RopeLen(l_prompt[t]) + self_contexts[l_self[t]][l_count[t] + 1].len >= limit
                 THEN /\ l_prompt' = [l_prompt EXCEPT ![t] =
                                         <<Lit(delimiter)>> \o l_prompt[t] \o <<Lit(delimiter)>>]
                      /\ l_count' = [l_count EXCEPT ![t] = l_count[t] + 1]
                      /\ lpc' = [lpc EXCEPT ![t] = "prompt_built"]
                 ELSE /\ l_prompt' = l_prompt
                      /\ l_count' = l_count
                      /\ lpc' = [lpc EXCEPT ![t] = "loop_append"]
    /\ UNCHANGED <<l_method, l_self, l_query, l_res, l_text, l_files, l_sent,
                   l_returned, objects, chatContext, retrieved_knowledge,
                   knowledge_message, context_query_knowledge, response,
                   response_message, self_contexts, chatBot_Response, turns>>
    /\ UNCHANGED (<<routerVars, ragVars, ingestVars, coordVars, qnaVars, apptVars, chatVars>>)

\* retrieve, lines 370-372: `prompt += self.contexts[count]` reads the list
\* again, as it is now, then count += 1
RetrieveAppend(t) ==
    /\ lpc[t] = "loop_append"
    /\ IF l_count[t] >= Len(self_contexts[l_self[t]])
          \/ self_contexts[l_self[t]][l_count[t] + 1].text = "None"
       THEN /\ l_prompt' = l_prompt
            /\ l_count' = l_count
            /\ lpc' = [lpc EXCEPT ![t] = "raised"]
       ELSE /\ l_prompt' = [l_prompt EXCEPT ![t] =
                               Cat(l_prompt[t],
                                   PassageText(self_contexts[l_self[t]][l_count[t] + 1]))]
            /\ l_count' = [l_count EXCEPT ![t] = l_count[t] + 1]
            /\ lpc' = [lpc EXCEPT ![t] = "loop_test"]
    /\ UNCHANGED <<l_method, l_self, l_query, l_res, l_text, l_files, l_sent,
                   l_returned, objects, chatContext, retrieved_knowledge,
                   knowledge_message, context_query_knowledge, response,
                   response_message, self_contexts, chatBot_Response, turns>>
    /\ UNCHANGED (<<routerVars, ragVars, ingestVars, coordVars, qnaVars, apptVars, chatVars>>)

\* retrieve returns prompt (line 377), which ends its locals, and the
\* caller assigns the value to the global retrieved_knowledge (lines 259,
\* 313)
AssignRetrieved(t) ==
    /\ lpc[t] = "prompt_built"
    /\ retrieved_knowledge' = l_prompt[t]
    /\ l_prompt' = [l_prompt EXCEPT ![t] = <<>>]
    /\ l_count' = [l_count EXCEPT ![t] = 0]
    /\ lpc' = [lpc EXCEPT ![t] = "retrieved"]
    /\ UNCHANGED <<l_method, l_self, l_query, l_res, l_text, l_files, l_sent,
                   l_returned, objects, chatContext, knowledge_message,
                   context_query_knowledge, response, response_message,
                   self_contexts, chatBot_Response, turns>>
    /\ UNCHANGED (<<routerVars, ragVars, ingestVars, coordVars, qnaVars, apptVars, chatVars>>)

\* lines 263-266 and 318-321: the global knowledge_message is made from the
\* global retrieved_knowledge
InfuseKnowledge(t) ==
    /\ lpc[t] = "retrieved"
    /\ knowledge_message' = KnowledgeMessage(retrieved_knowledge)
    /\ lpc' = [lpc EXCEPT ![t] = "infused"]
    /\ UNCHANGED <<l_method, l_self, l_query, l_res, l_prompt, l_count, l_text,
                   l_files, l_sent, l_returned, objects, chatContext,
                   retrieved_knowledge, context_query_knowledge, response,
                   response_message, self_contexts, chatBot_Response, turns>>
    /\ UNCHANGED (<<routerVars, ragVars, ingestVars, coordVars, qnaVars, apptVars, chatVars>>)

\* lines 268 and 324: the global context_query_knowledge is
\* chatContext + [knowledge_message, query_message]
BuildRequest(t) ==
    /\ lpc[t] = "infused"
    /\ context_query_knowledge' = chatContext \o <<knowledge_message, l_query[t]>>
    /\ lpc' = [lpc EXCEPT ![t] = "built"]
    /\ UNCHANGED <<l_method, l_self, l_query, l_res, l_prompt, l_count, l_text,
                   l_files, l_sent, l_returned, objects, chatContext,
                   retrieved_knowledge, knowledge_message, response,
                   response_message, self_contexts, chatBot_Response, turns>>
    /\ UNCHANGED (<<routerVars, ragVars, ingestVars, coordVars, qnaVars, apptVars, chatVars>>)

\* lines 271 and 327: response_request is called with the global
\* context_query_knowledge as it is now
LegacySend(t) ==
    /\ lpc[t] = "built"
    /\ l_sent' = [l_sent EXCEPT ![t] = context_query_knowledge]
    /\ lpc' = [lpc EXCEPT ![t] = "sent"]
    /\ UNCHANGED <<l_method, l_self, l_query, l_res, l_prompt, l_count, l_text,
                   l_files, l_returned, objects, chatContext, retrieved_knowledge,
                   knowledge_message, context_query_knowledge, response,
                   response_message, self_contexts, chatBot_Response, turns>>
    /\ UNCHANGED (<<routerVars, ragVars, ingestVars, coordVars, qnaVars, apptVars, chatVars>>)

\* lines 271 and 327: the call returns and the reply is assigned to the
\* global response, or the call raises; the request is over
LegacyReceive(t, ok, r) ==
    /\ lpc[t] = "sent"
    /\ l_sent' = [l_sent EXCEPT ![t] = <<>>]
    /\ l_res' = [l_res EXCEPT ![t] = <<>>]
    /\ IF ok
       THEN /\ response' = r
            /\ lpc' = [lpc EXCEPT ![t] = IF l_method[t] = "query_RAG"
                                         THEN "replied" ELSE "previous_appended"]
       ELSE /\ response' = response
            /\ lpc' = [lpc EXCEPT ![t] = "raised"]
    /\ UNCHANGED <<l_method, l_self, l_query, l_prompt, l_count, l_text, l_files,
                   l_returned, objects, chatContext, retrieved_knowledge,
                   knowledge_message, context_query_knowledge, response_message,
                   self_contexts, chatBot_Response, turns>>
    /\ UNCHANGED (<<routerVars, ragVars, ingestVars, coordVars, qnaVars, apptVars, chatVars>>)

\* query_RAG, line 330: the global response_message, still the previous
\* reply, is appended to chatContext
AppendPreviousResponse(t) ==
    /\ lpc[t] = "replied"
    /\ chatContext' = Append(chatContext, response_message)
    /\ lpc' = [lpc EXCEPT ![t] = "previous_appended"]
    /\ UNCHANGED <<l_method, l_self, l_query, l_res, l_prompt, l_count, l_text,
                   l_files, l_sent, l_returned, objects, retrieved_knowledge,
                   knowledge_message, context_query_knowledge, response,
                   response_message, self_contexts, chatBot_Response, turns>>
    /\ UNCHANGED (<<routerVars, ragVars, ingestVars, coordVars, qnaVars, apptVars, chatVars>>)

\* lines 273 and 331: response.output_text is read from the global
\* response, as the argument of wrap_text
ReadResponse(t) ==
    /\ lpc[t] = "previous_appended"
    /\ l_text' = [l_text EXCEPT ![t] = response]
    /\ lpc' = [lpc EXCEPT ![t] = "wrapping"]
    /\ UNCHANGED <<l_method, l_self, l_query, l_res, l_prompt, l_count, l_files,
                   l_sent, l_returned, objects, chatContext, retrieved_knowledge,
                   knowledge_message, context_query_knowledge, response,
                   response_message, self_contexts, chatBot_Response, turns>>
    /\ UNCHANGED (<<routerVars, ragVars, ingestVars, coordVars, qnaVars, apptVars, chatVars>>)

\* lines 273 and 331: wrap_text runs on the text it was given and its
\* result is assigned to self.chatBot_Response
AssignChatBotResponse(t) ==
    /\ lpc[t] = "wrapping"
    /\ chatBot_Response' = [chatBot_Response EXCEPT ![l_self[t]] = wrap_text(l_text[t])]
    /\ l_text' = [l_text EXCEPT ![t] = <<>>]
    /\ lpc' = [lpc EXCEPT ![t] = "attribute_assigned"]
    /\ UNCHANGED <<l_method, l_self, l_query, l_res, l_prompt, l_count, l_files,
                   l_sent, l_returned, objects, chatContext, retrieved_knowledge,
                   knowledge_message, context_query_knowledge, response,
                   response_message, self_contexts, turns>>
    /\ UNCHANGED (<<routerVars, ragVars, ingestVars, coordVars, qnaVars, apptVars, chatVars>>)

\* lines 276 and 334: the global response_message is made from the global
\* response
AssignResponse(t) ==
    /\ lpc[t] = "attribute_assigned"
    /\ response_message' = Message("assistant", response)
    /\ lpc' = [lpc EXCEPT ![t] = "assigned"]
    /\ UNCHANGED <<l_method, l_self, l_query, l_res, l_prompt, l_count, l_text,
                   l_files, l_sent, l_returned, objects, chatContext,
                   retrieved_knowledge, knowledge_message, context_query_knowledge,
                   response, self_contexts, chatBot_Response, turns>>
    /\ UNCHANGED (<<routerVars, ragVars, ingestVars, coordVars, qnaVars, apptVars, chatVars>>)

\* lines 277 and 335: the global response_message is appended to chatContext
AppendResponse(t) ==
    /\ lpc[t] = "assigned"
    /\ chatContext' = Append(chatContext, response_message)
    /\ lpc' = [lpc EXCEPT ![t] = "response_appended"]
    /\ UNCHANGED <<l_method, l_self, l_query, l_res, l_prompt, l_count, l_text,
                   l_files, l_sent, l_returned, objects, retrieved_knowledge,
                   knowledge_message, context_query_knowledge, response,
                   response_message, self_contexts, chatBot_Response, turns>>
    /\ UNCHANGED (<<routerVars, ragVars, ingestVars, coordVars, qnaVars, apptVars, chatVars>>)

\* line 336: query_RAG returns the attribute self.chatBot_Response as it is
\* now; set_rag_env and __init__ return None
ReturnChatBotResponse(t) ==
    /\ lpc[t] = "response_appended"
    /\ l_returned' = [l_returned EXCEPT ![t] =
                        IF l_method[t] = "query_RAG"
                        THEN [kind |-> "str", value |-> chatBot_Response[l_self[t]]]
                        ELSE [kind |-> "None", value |-> <<>>]]
    /\ lpc' = [lpc EXCEPT ![t] = "done"]
    /\ UNCHANGED <<l_method, l_self, l_query, l_res, l_prompt, l_count, l_text,
                   l_files, l_sent, objects, chatContext, retrieved_knowledge,
                   knowledge_message, context_query_knowledge, response,
                   response_message, self_contexts, chatBot_Response, turns>>
    /\ UNCHANGED (<<routerVars, ragVars, ingestVars, coordVars, qnaVars, apptVars, chatVars>>)

\* the caller has the value or the exception; the locals are gone, the
\* globals and the attributes stay; a constructor that returned has made
\* its object available
LegacyReturn(t) ==
    /\ lpc[t] \in {"done", "raised"}
    /\ objects' = IF l_method[t] = "__init__" /\ lpc[t] = "done"
                  THEN objects \cup {l_self[t]} ELSE objects
    /\ lpc' = [lpc EXCEPT ![t] = "idle"]
    /\ l_method' = [l_method EXCEPT ![t] = ""]
    /\ l_self' = [l_self EXCEPT ![t] = 0]
    /\ l_query' = [l_query EXCEPT ![t] = Message("", <<>>)]
    /\ l_res' = [l_res EXCEPT ![t] = <<>>]
    /\ l_prompt' = [l_prompt EXCEPT ![t] = <<>>]
    /\ l_count' = [l_count EXCEPT ![t] = 0]
    /\ l_text' = [l_text EXCEPT ![t] = <<>>]
    /\ l_files' = [l_files EXCEPT ![t] = 0]
    /\ l_sent' = [l_sent EXCEPT ![t] = <<>>]
    /\ l_returned' = [l_returned EXCEPT ![t] = [kind |-> "pending", value |-> <<>>]]
    /\ UNCHANGED <<chatContext, retrieved_knowledge, knowledge_message,
                   context_query_knowledge, response, response_message,
                   self_contexts, chatBot_Response, turns>>
    /\ UNCHANGED (<<routerVars, ragVars, ingestVars, coordVars, qnaVars, apptVars, chatVars>>)

LegacyNext ==
    \/ \E t \in Callers :
        \/ \E o \in Objects : Construct(t, o)
        \/ \E ok \in BOOLEAN : BuildRAG(t, ok)
        \/ \E n \in {0, 10}, ok \in BOOLEAN : BuildUpsert(t, n, ok)
        \/ BuildUpsertReturn(t)
        \/ InitContext(t)
        \/ \E o \in Objects : SetRagEnv(t, o)
        \/ AppendSeedQuery(t)
        \* caller 1 asks "a", caller 2 asks "b"
        \/ \E o \in Objects, q \in {"a", "b"} : (q = "a" <=> t = 1) /\ QueryRAG(t, o, q)
        \/ \E ok \in BOOLEAN,
              m \in {<<>>,
                     <<[id |-> 1, text |-> "str", len |-> 1]>>,
                     <<[id |-> 1, text |-> "str", len |-> 7999]>>,
                     <<[id |-> 1, text |-> "None", len |-> 0]>>} :
                \/ LegacyQuery(t, ok, m)
                \/ LegacyRetrieveQuery(t, ok, m)
        \/ RetrieveTest(t)
        \/ RetrieveIf(t)
        \/ RetrieveAppend(t)
        \/ AssignRetrieved(t)
        \/ InfuseKnowledge(t)
        \/ BuildRequest(t)
        \/ LegacySend(t)
        \/ \E ok \in BOOLEAN,
              r \in {<<Lit("r1")>>,
                     <<[kind |-> "repeat", text |-> "a", id |-> 0, len |-> 101]>>} :
                LegacyReceive(t, ok, r)
        \/ AppendPreviousResponse(t)
        \/ ReadResponse(t)
        \/ AssignChatBotResponse(t)
        \/ AssignResponse(t)
        \/ AppendResponse(t)
        \/ ReturnChatBotResponse(t)
        \/ LegacyReturn(t)
    \* the steps of the nlp_upsert call a constructor is in
    \/ (LoopEnter \/ LoopExit \/ EmbedFail \/ RetrySleep)
    \/ \E usable \in BOOLEAN : EmbedOk(usable)
    \/ \E ok \in BOOLEAN : Upsert(ok)

LegacySpec == LegacyInit /\ [][LegacyNext]_vars

\* ------------------------------------------------------ appointment tools
\* the patients whose requests reach the tools
Patients == {1, 2}

\* a scheduled_time argument: not ISO, before now, or one of two future times
TimeArgs ==
    {[kind |-> "invalid", at |-> 0], [kind |-> "past", at |-> 0],
     [kind |-> "future", at |-> 1], [kind |-> "future", at |-> 2]}

\* the updates dictionaries the tool is given: each key is absent or
\* present; no key, one key at a time, the text and duration keys
\* together, with a duration int() accepts or rejects, and a valid time
\* followed by a duration int() rejects
Updates ==
    LET Absent == [kind |-> "absent", at |-> 0]
        UpdatesOf(scheduled_time, reason, notes, duration_minutes, is_virtual) ==
            [scheduled_time |-> scheduled_time, reason |-> reason, notes |-> notes,
             duration_minutes |-> duration_minutes, is_virtual |-> is_virtual]
    IN
        LET \* a duration_minutes value in updates: int() accepts it or raises
            DurationArgs == {[kind |-> "int", at |-> 60], [kind |-> "invalid", at |-> 0]}
        IN
            {UpdatesOf(Absent, <<>>, <<>>, Absent, <<>>)}
            \cup {UpdatesOf(t, <<>>, <<>>, Absent, <<>>) :
                        t \in TimeArgs \ {[kind |-> "future", at |-> 1]}}
            \cup {UpdatesOf(Absent, <<>>, <<>>, Absent, <<TRUE>>)}
            \cup {UpdatesOf(Absent, <<"r2">>, <<"n">>, d, <<>>) : d \in DurationArgs}
            \cup {UpdatesOf([kind |-> "future", at |-> 2], <<>>, <<>>,
                            [kind |-> "invalid", at |-> 0], <<>>)}

Location(is_virtual) == IF is_virtual THEN "Virtual" ELSE "Main Clinic"

\* db.query(Appointment).filter(id == appointment_id).first(): the query
\* without the filter on patient_id
FindAppointmentIgnoresPatient(rows, patient_id, appointment_id) ==
    appointment_id \in DOMAIN rows

\* db.query(Appointment).filter(id == appointment_id, patient_id == patient_id).first()
FindAppointment(rows, patient_id, appointment_id) ==
    /\ appointment_id \in DOMAIN rows
    /\ rows[appointment_id].patient_id = patient_id

\* the data dictionary of a tool that refused or failed
ToolFailure(action, error) ==
    [action |-> action, success |-> FALSE, error |-> error, appointment_id |-> 0,
     status |-> ""]

\* the data dictionary of a tool that succeeded: the id and the status are
\* read from the object after the commit
ToolSuccess(action, appointment_id, row_status) ==
    [action |-> action, success |-> TRUE, error |-> "",
     appointment_id |-> appointment_id, status |-> row_status]

\* the row _book_appointment_tool creates
NewAppointment(patient_id, at, is_virtual) ==
    [patient_id |-> patient_id, doctor_name |-> "dr",
     appointment_type |-> "consultation", scheduled_time |-> at,
     duration_minutes |-> 30, reason |-> "r1", notes |-> "",
     is_virtual |-> is_virtual, status |-> "scheduled",
     location |-> Location(is_virtual)]

ApptInit ==
    /\ RouterIdle
    /\ ChatIdle
    /\ RagIdle
    /\ IngestIdle
    /\ CoordIdle
    /\ QnaIdle
    /\ use_rag = FALSE
    /\ rag_service = FALSE
    /\ LegacyIdle(<<>>)
    /\ ApptIdle

\* the UPDATE a commit flushes: the columns the session changed since it
\* loaded the row, written over the row as the table has it now
Flush(row, was, now) ==
    [f \in DOMAIN row |-> IF now[f] # was[f] THEN now[f] ELSE row[f]]

\* _book_appointment_tool, lines 255-302 and 333-339: the provider query,
\* the checks of the time, the new Appointment, db.add and db.commit().
\* commit_ok = FALSE is the commit raising, which the except branch answers
\* with a rollback. After the commit the session has expired the object:
\* it keeps the id the INSERT gave it and no attribute
BookAppointment(s, patient_id, provider_found, time, is_virtual, commit_ok) ==
    /\ apc[s] = "idle"
    /\ Len(appointments) + 1 \in AppointmentIds
    /\ tool_call' = [tool_call EXCEPT ![s] =
                        [tool |-> "book", patient_id |-> patient_id,
                         appointment_id |-> 0, updates |-> <<>>]]
    /\ IF ~provider_found
       THEN /\ tool_data' = [tool_data EXCEPT ![s] =
                                ToolFailure("book_appointment", "Provider not found")]
            /\ apc' = [apc EXCEPT ![s] = "returned"]
            /\ UNCHANGED <<appointments, loaded>>
       ELSE IF time.kind = "invalid"
       THEN /\ tool_data' = [tool_data EXCEPT ![s] =
                                ToolFailure("book_appointment", "Invalid date/time format")]
            /\ apc' = [apc EXCEPT ![s] = "returned"]
            /\ UNCHANGED <<appointments, loaded>>
       ELSE IF time.kind = "past"
       THEN /\ tool_data' = [tool_data EXCEPT ![s] =
                                ToolFailure("book_appointment", "Past date/time")]
            /\ apc' = [apc EXCEPT ![s] = "returned"]
            /\ UNCHANGED <<appointments, loaded>>
       ELSE IF ~commit_ok
       THEN /\ tool_data' = [tool_data EXCEPT ![s] =
                                ToolFailure("book_appointment", "exception")]
            /\ apc' = [apc EXCEPT ![s] = "returned"]
            /\ UNCHANGED <<appointments, loaded>>
       ELSE /\ appointments' =
                  Append(appointments, NewAppointment(patient_id, time.at, is_virtual))
            /\ loaded' = [loaded EXCEPT ![s] =
                             <<[id |-> Len(appointments) + 1, attrs |-> <<>>]>>]
            /\ apc' = [apc EXCEPT ![s] = "committed"]
            /\ tool_data' = tool_data
    /\ UNCHANGED (<<routerVars, ragVars, ingestVars, coordVars, qnaVars, legacyVars, chatVars>>)

\* _book_appointment_tool, lines 303-339: db.refresh(appointment) reads the
\* row as the table has it now, and the response and the data are built
\* from it. after_ok = FALSE is the refresh or the formatting raising,
\* which the except branch answers with a rollback that has nothing left
\* to undo
BookRefresh(s, after_ok) ==
    LET id == loaded[s][1].id
    IN
        /\ apc[s] = "committed"
        /\ tool_call[s].tool = "book"
        /\ apc' = [apc EXCEPT ![s] = "returned"]
        /\ IF after_ok
           THEN /\ loaded' = [loaded EXCEPT ![s] =
                                 <<[id |-> id, attrs |-> <<appointments[id]>>]>>]
                /\ tool_data' = [tool_data EXCEPT ![s] =
                                    ToolSuccess("book_appointment", id,
                                                appointments[id].status)]
           ELSE /\ loaded' = loaded
                /\ tool_data' = [tool_data EXCEPT ![s] =
                                    ToolFailure("book_appointment", "exception")]
        /\ UNCHANGED <<appointments, tool_call>>
        /\ UNCHANGED (<<routerVars, ragVars, ingestVars, coordVars, qnaVars, legacyVars, chatVars>>)

\* _list_appointments_tool: the filter on patient_id and status is
\* evaluated on the table, the rows it selects are ordered by
\* scheduled_time, latest first, and the first list_limit of them (the
\* argument limit) are listed with their id and status; nothing is
\* written. The order of rows with the same scheduled_time is the
\* database's choice: listing is any order the ORDER BY allows.
\* with_cancelled is status_filter = 'cancelled'. query_ok = FALSE is the
\* query raising: the except branch returns the error dictionary and does
\* not roll back
ListAppointments(s, patient_id, list_limit, with_cancelled, query_ok) ==
    LET selected ==
            {id \in DOMAIN appointments :
                /\ appointments[id].patient_id = patient_id
                /\ (appointments[id].status = "cancelled") = with_cancelled}
        n == Cardinality(selected)
        \* the orders of the selected rows that ORDER BY scheduled_time DESC allows
        listings ==
            {l \in [1..n -> selected] :
                /\ \A j, k \in 1..n : j # k => l[j] # l[k]
                /\ \A j, k \in 1..n :
                      j < k => appointments[l[j]].scheduled_time
                                   >= appointments[l[k]].scheduled_time}
        listed == IF list_limit < n THEN list_limit ELSE n
    IN
        /\ apc[s] = "idle"
        /\ apc' = [apc EXCEPT ![s] = "returned"]
        /\ tool_call' = [tool_call EXCEPT ![s] =
                            [tool |-> "list", patient_id |-> patient_id,
                             appointment_id |-> 0, updates |-> <<>>]]
        /\ \E listing \in listings :
              tool_data' = [tool_data EXCEPT ![s] =
                               IF query_ok
                               THEN [action |-> "list_appointments",
                                     appointments |->
                                         [k \in 1..listed |->
                                             [id |-> listing[k],
                                              status |-> appointments[listing[k]].status]],
                                     count |-> listed]
                               ELSE [action |-> "list_appointments", error |-> "exception",
                                     success |-> FALSE]]
        /\ UNCHANGED <<appointments, loaded>>
        /\ UNCHANGED (<<routerVars, ragVars, ingestVars, coordVars, qnaVars, legacyVars, chatVars>>)

\* _cancel_appointment_tool, lines 423-440: the query, which reads the row
\* from the table, and the two early returns
CancelLookup(s, patient_id, appointment_id) ==
    /\ apc[s] = "idle"
    /\ tool_call' = [tool_call EXCEPT ![s] =
                        [tool |-> "cancel", patient_id |-> patient_id,
                         appointment_id |-> appointment_id, updates |-> <<>>]]
    /\ IF ~FindAppointment(appointments, patient_id, appointment_id)
       THEN /\ tool_data' = [tool_data EXCEPT ![s] =
                                ToolFailure("cancel_appointment", "Appointment not found")]
            /\ apc' = [apc EXCEPT ![s] = "returned"]
            /\ loaded' = loaded
       ELSE /\ loaded' = [loaded EXCEPT ![s] =
                             <<[id |-> appointment_id,
                                attrs |-> <<appointments[appointment_id]>>]>>]
            /\ IF appointments[appointment_id].status = "cancelled"
               THEN /\ tool_data' = [tool_data EXCEPT ![s] =
                                        ToolFailure("cancel_appointment", "Already cancelled")]
                    /\ apc' = [apc EXCEPT ![s] = "returned"]
               ELSE /\ tool_data' = tool_data
                    /\ apc' = [apc EXCEPT ![s] = "found"]
    /\ UNCHANGED appointments
    /\ UNCHANGED (<<routerVars, ragVars, ingestVars, coordVars, qnaVars, legacyVars, chatVars>>)

\* _cancel_appointment_tool, lines 442-445 and 470-476: status = 'cancelled'
\* on the object and db.commit(), which writes the column and expires the
\* object; the commit raising is answered with a rollback
CancelCommit(s, commit_ok) ==
    LET id == loaded[s][1].id
        was == loaded[s][1].attrs[1]
    IN
        /\ apc[s] = "found"
        /\ tool_call[s].tool = "cancel"
        /\ loaded' = [loaded EXCEPT ![s] = <<[id |-> id, attrs |-> <<>>]>>]
        /\ IF commit_ok
           THEN /\ appointments' =
                      [appointments EXCEPT ![id] =
                          Flush(@, was, [was EXCEPT !.status = "cancelled"])]
                /\ apc' = [apc EXCEPT ![s] = "committed"]
                /\ tool_data' = tool_data
           ELSE /\ appointments' = appointments
                /\ apc' = [apc EXCEPT ![s] = "returned"]
                /\ tool_data' = [tool_data EXCEPT ![s] =
                                    ToolFailure("cancel_appointment", "exception")]
        /\ UNCHANGED tool_call
        /\ UNCHANGED (<<routerVars, ragVars, ingestVars, coordVars, qnaVars, legacyVars, chatVars>>)

\* _cancel_appointment_tool, lines 447-476: the response and the data read
\* the attributes of the expired object, which the session reads again
\* from the row as the table has it now; the read raising is answered with
\* a rollback that has nothing left to undo
CancelReload(s, after_ok) ==
    LET id == loaded[s][1].id
    IN
        /\ apc[s] = "committed"
        /\ tool_call[s].tool = "cancel"
        /\ apc' = [apc EXCEPT ![s] = "returned"]
        /\ IF after_ok
           THEN /\ loaded' = [loaded EXCEPT ![s] =
                                 <<[id |-> id, attrs |-> <<appointments[id]>>]>>]
                /\ tool_data' = [tool_data EXCEPT ![s] =
                                    ToolSuccess("cancel_appointment", id,
                                                appointments[id].status)]
           ELSE /\ loaded' = loaded
                /\ tool_data' = [tool_data EXCEPT ![s] =
                                    ToolFailure("cancel_appointment", "exception")]
        /\ UNCHANGED <<appointments, tool_call>>
        /\ UNCHANGED (<<routerVars, ragVars, ingestVars, coordVars, qnaVars, legacyVars, chatVars>>)

\* _update_appointment_tool, lines 487-536 and 573-579: the query, which
\* reads the row from the table, the early returns, and the assignments to
\* the object; the time is checked before anything is assigned, and int()
\* raising on the duration is answered with a rollback of the assignments
\* made so far
UpdateLookup(s, patient_id, appointment_id, u) ==
    /\ apc[s] = "idle"
    /\ tool_call' = [tool_call EXCEPT ![s] =
                        [tool |-> "update", patient_id |-> patient_id,
                         appointment_id |-> appointment_id, updates |-> u]]
    /\ IF ~FindAppointment(appointments, patient_id, appointment_id)
       THEN /\ tool_data' = [tool_data EXCEPT ![s] =
                                ToolFailure("update_appointment", "Appointment not found")]
            /\ apc' = [apc EXCEPT ![s] = "returned"]
            /\ loaded' = loaded
       ELSE IF appointments[appointment_id].status = "cancelled"
       THEN /\ tool_data' = [tool_data EXCEPT ![s] =
                                ToolFailure("update_appointment", "Appointment is cancelled")]
            /\ apc' = [apc EXCEPT ![s] = "returned"]
            /\ loaded' = [loaded EXCEPT ![s] =
                             <<[id |-> appointment_id,
                                attrs |-> <<appointments[appointment_id]>>]>>]
       ELSE IF u.scheduled_time.kind = "past"
       THEN /\ tool_data' = [tool_data EXCEPT ![s] =
                                ToolFailure("update_appointment", "Past date/time")]
            /\ apc' = [apc EXCEPT ![s] = "returned"]
            /\ loaded' = [loaded EXCEPT ![s] =
                             <<[id |-> appointment_id,
                                attrs |-> <<appointments[appointment_id]>>]>>]
       ELSE IF u.scheduled_time.kind = "invalid"
       THEN /\ tool_data' = [tool_data EXCEPT ![s] =
                                ToolFailure("update_appointment", "Invalid date/time format")]
            /\ apc' = [apc EXCEPT ![s] = "returned"]
            /\ loaded' = [loaded EXCEPT ![s] =
                             <<[id |-> appointment_id,
                                attrs |-> <<appointments[appointment_id]>>]>>]
       ELSE IF u.duration_minutes.kind = "invalid"
       THEN /\ tool_data' = [tool_data EXCEPT ![s] =
                                ToolFailure("update_appointment", "exception")]
            /\ apc' = [apc EXCEPT ![s] = "returned"]
            /\ loaded' = [loaded EXCEPT ![s] =
                             <<[id |-> appointment_id, attrs |-> <<>>]>>]
       ELSE /\ tool_data' = tool_data
            /\ apc' = [apc EXCEPT ![s] = "found"]
            /\ loaded' = [loaded EXCEPT ![s] =
                             <<[id |-> appointment_id,
                                attrs |-> <<appointments[appointment_id]>>]>>]
    /\ UNCHANGED appointments
    /\ UNCHANGED (<<routerVars, ragVars, ingestVars, coordVars, qnaVars, legacyVars, chatVars>>)

\* _update_appointment_tool, lines 538-539 and 573-579: db.commit() writes
\* the columns the assignments of lines 509-536 changed and expires the
\* object; the commit raising is answered with a rollback
UpdateCommit(s, commit_ok) ==
    LET \* the field assignments of _update_appointment_tool, lines 509-536, once
        \* the new time has been accepted
        Updated(row, u) ==
            [row EXCEPT
               !.scheduled_time = IF u.scheduled_time.kind = "future"
                                  THEN u.scheduled_time.at ELSE @,
               !.reason = IF u.reason # <<>> THEN u.reason[1] ELSE @,
               !.notes = IF u.notes # <<>> THEN u.notes[1] ELSE @,
               !.duration_minutes = IF u.duration_minutes.kind = "int"
                                    THEN u.duration_minutes.at ELSE @,
               !.is_virtual = IF u.is_virtual # <<>> THEN u.is_virtual[1] ELSE @,
               !.location = IF u.is_virtual # <<>> THEN Location(u.is_virtual[1]) ELSE @]
    IN
        LET id == loaded[s][1].id
            was == loaded[s][1].attrs[1]
        IN
            /\ apc[s] = "found"
            /\ tool_call[s].tool = "update"
            /\ loaded' = [loaded EXCEPT ![s] = <<[id |-> id, attrs |-> <<>>]>>]
            /\ IF commit_ok
               THEN /\ appointments' =
                          [appointments EXCEPT ![id] =
                              Flush(@, was, Updated(was, tool_call[s].updates))]
                    /\ apc' = [apc EXCEPT ![s] = "committed"]
                    /\ tool_data' = tool_data
               ELSE /\ appointments' = appointments
                    /\ apc' = [apc EXCEPT ![s] = "returned"]
                    /\ tool_data' = [tool_data EXCEPT ![s] =
                                        ToolFailure("update_appointment", "exception")]
            /\ UNCHANGED tool_call
            /\ UNCHANGED (<<routerVars, ragVars, ingestVars, coordVars, qnaVars, legacyVars, chatVars>>)

\* _update_appointment_tool, lines 540-579: db.refresh(appointment) reads
\* the row as the table has it now, and the response and the data are
\* built from it; the refresh raising is answered with a rollback that has
\* nothing left to undo
UpdateRefresh(s, after_ok) ==
    LET id == loaded[s][1].id
    IN
        /\ apc[s] = "committed"
        /\ tool_call[s].tool = "update"
        /\ apc' = [apc EXCEPT ![s] = "returned"]
        /\ IF after_ok
           THEN /\ loaded' = [loaded EXCEPT ![s] =
                                 <<[id |-> id, attrs |-> <<appointments[id]>>]>>]
                /\ tool_data' = [tool_data EXCEPT ![s] =
                                    ToolSuccess("update_appointment", id,
                                                appointments[id].status)]
           ELSE /\ loaded' = loaded
                /\ tool_data' = [tool_data EXCEPT ![s] =
                                    ToolFailure("update_appointment", "exception")]
        /\ UNCHANGED <<appointments, tool_call>>
        /\ UNCHANGED (<<routerVars, ragVars, ingestVars, coordVars, qnaVars, legacyVars, chatVars>>)

\* the tool returns its response string and its data dictionary to the
\* loop over the tool calls of the request. The object was a local of the
\* tool and the session references it weakly: nothing holds it after the
\* return, and the query of the next tool call reads the table
ToolReturn(s) ==
    /\ apc[s] = "returned"
    /\ apc' = [apc EXCEPT ![s] = "idle"]
    /\ tool_call' = [tool_call EXCEPT ![s] =
                        [tool |-> "", patient_id |-> 0, appointment_id |-> 0,
                         updates |-> <<>>]]
    /\ tool_data' = [tool_data EXCEPT ![s] =
                        [action |-> "", success |-> FALSE, error |-> "",
                         appointment_id |-> 0, status |-> ""]]
    /\ loaded' = [loaded EXCEPT ![s] = <<>>]
    /\ UNCHANGED appointments
    /\ UNCHANGED (<<routerVars, ragVars, ingestVars, coordVars, qnaVars, legacyVars, chatVars>>)

\* what the request holding session s can do next
ToolStep(s) ==
    \/ \E patient_id \in Patients, provider_found \in BOOLEAN, time \in TimeArgs,
          is_virtual \in BOOLEAN, commit_ok \in BOOLEAN :
          BookAppointment(s, patient_id, provider_found, time, is_virtual, commit_ok)
    \/ \E after_ok \in BOOLEAN : BookRefresh(s, after_ok)
    \/ \E patient_id \in Patients, list_limit \in {0, 1, 10}, with_cancelled \in BOOLEAN,
          query_ok \in BOOLEAN :
          ListAppointments(s, patient_id, list_limit, with_cancelled, query_ok)
    \/ \E patient_id \in Patients, appointment_id \in (AppointmentIds \cup {3}) :
          CancelLookup(s, patient_id, appointment_id)
    \/ \E commit_ok \in BOOLEAN : CancelCommit(s, commit_ok)
    \/ \E after_ok \in BOOLEAN : CancelReload(s, after_ok)
    \/ \E patient_id \in Patients, appointment_id \in (AppointmentIds \cup {3}),
          u \in Updates :
          UpdateLookup(s, patient_id, appointment_id, u)
    \/ \E commit_ok \in BOOLEAN : UpdateCommit(s, commit_ok)
    \/ \E after_ok \in BOOLEAN : UpdateRefresh(s, after_ok)
    \/ ToolReturn(s)

\* no other session is inside a tool operation
NoneBetween(s) == \A o \in Sessions \ {s} : apc[o] = "idle"

\* the tool operations of the requests, each request with its own session,
\* one operation after the other: a session takes a step only while no
\* other is inside an operation
ApptNext ==
    \/ \E s \in Sessions, patient_id \in Patients, provider_found \in BOOLEAN,
          time \in TimeArgs, is_virtual \in BOOLEAN, commit_ok \in BOOLEAN :
          /\ NoneBetween(s)
          /\ BookAppointment(s, patient_id, provider_found, time, is_virtual, commit_ok)
    \/ \E s \in Sessions, after_ok \in BOOLEAN : NoneBetween(s) /\ BookRefresh(s, after_ok)
    \/ \E s \in Sessions, patient_id \in Patients, list_limit \in {0, 1, 10},
          with_cancelled \in BOOLEAN, query_ok \in BOOLEAN :
          /\ NoneBetween(s)
          /\ ListAppointments(s, patient_id, list_limit, with_cancelled, query_ok)
    \/ \E s \in Sessions, patient_id \in Patients,
          appointment_id \in (AppointmentIds \cup {3}) :
          NoneBetween(s) /\ CancelLookup(s, patient_id, appointment_id)
    \/ \E s \in Sessions, commit_ok \in BOOLEAN : NoneBetween(s) /\ CancelCommit(s, commit_ok)
    \/ \E s \in Sessions, after_ok \in BOOLEAN : NoneBetween(s) /\ CancelReload(s, after_ok)
    \/ \E s \in Sessions, patient_id \in Patients,
          appointment_id \in (AppointmentIds \cup {3}), u \in Updates :
          NoneBetween(s) /\ UpdateLookup(s, patient_id, appointment_id, u)
    \/ \E s \in Sessions, commit_ok \in BOOLEAN : NoneBetween(s) /\ UpdateCommit(s, commit_ok)
    \/ \E s \in Sessions, after_ok \in BOOLEAN : NoneBetween(s) /\ UpdateRefresh(s, after_ok)
    \/ \E s \in Sessions : NoneBetween(s) /\ ToolReturn(s)

ApptSpec == ApptInit /\ [][ApptNext]_vars

\* the tool operations of the requests with their steps interleaved
ConcurrentNext == \E s \in Sessions : ToolStep(s)

ConcurrentSpec == ApptInit /\ [][ConcurrentNext]_vars

\* ----------------------------------------------------------- chat endpoint
MaxPairs == 2

\* the conversation rows the table can hold, and the conversation_id values
\* a request can carry: 0 is None, 3 is an id no row has
ConversationIds == {1, 2}

\* request.message.strip(): the message, the sequence of the code points
\* of its characters, without its leading and trailing whitespace
Strip(m) ==
    LET \* the code points str.isspace() accepts, which str.strip() removes
        Whitespace ==
            (9..13) \cup (28..32) \cup {133, 160, 5760} \cup (8192..8202)
                \cup {8232, 8233, 8239, 8287, 12288}
        kept == {k \in 1..Len(m) : m[k] \notin Whitespace}
    IN IF kept = {} THEN <<>>
       ELSE SubSeq(m, CHOOSE k \in kept : \A j \in kept : k <= j,
                      CHOOSE k \in kept : \A j \in kept : j <= k)

\* a chat_messages row
ChatMessage(conversation_id, role, content) ==
    [conversation_id |-> conversation_id, role |-> role, content |-> content]

ChatInit ==
    /\ RouterIdle
    /\ RagIdle
    /\ IngestIdle
    /\ CoordIdle
    /\ QnaIdle
    /\ use_rag = FALSE
    /\ rag_service = FALSE
    /\ LegacyIdle(<<>>)
    /\ ApptIdle
    /\ ChatIdle

\* the request leaves chat() with this status; whatever the session still
\* holds is discarded with it
Respond(code) ==
    /\ chat_status' = code
    /\ pending' = <<>>
    /\ cpc' = "responded"

\* chat() is entered; without an OpenAI client it answers 503
Chat(patient_id, message, conversation_id, configured) ==
    /\ cpc = "idle"
    /\ Len(messages) < 2 * MaxPairs
    /\ request' = [patient_id |-> patient_id, message |-> message,
                   conversation_id |-> conversation_id]
    /\ stored_before' = Len(messages)
    /\ IF configured
       THEN cpc' = "validate" /\ chat_status' = chat_status /\ pending' = pending
       ELSE Respond(503)
    /\ UNCHANGED <<conversation, ai_response, conversations, messages>>
    /\ UNCHANGED (<<routerVars, ragVars, ingestVars, coordVars, qnaVars, legacyVars, apptVars>>)

\* lines 78-83: an empty message after strip() is a 400
ValidateMessage ==
    /\ cpc = "validate"
    /\ IF Strip(request.message) = <<>>
       THEN Respond(400)
       ELSE cpc' = "resolve" /\ chat_status' = chat_status /\ pending' = pending
    /\ UNCHANGED <<request, conversation, ai_response, conversations, messages,
                   stored_before>>
    /\ UNCHANGED (<<routerVars, ragVars, ingestVars, coordVars, qnaVars, legacyVars, apptVars>>)

\* lines 90-101: a conversation_id that is not this patient's is a 404
FindOrReject ==
    LET \* db.query(ChatConversation).filter(conversation_id == ..., patient_id == ...).first()
        FindConversation(rows, conversation_id, patient_id) ==
            /\ conversation_id \in DOMAIN rows
            /\ rows[conversation_id] = patient_id
    IN
        /\ cpc = "resolve"
        /\ request.conversation_id # 0
        /\ IF FindConversation(conversations, request.conversation_id, request.patient_id)
           THEN /\ conversation' = request.conversation_id
                /\ cpc' = "handle" /\ chat_status' = chat_status /\ pending' = pending
           ELSE /\ conversation' = conversation
                /\ Respond(404)
        /\ UNCHANGED <<request, ai_response, conversations, messages, stored_before>>
        /\ UNCHANGED (<<routerVars, ragVars, ingestVars, coordVars, qnaVars, legacyVars, apptVars>>)

\* lines 102-110: without a conversation_id a conversation is created and
\* committed; the commit raising is a 500
CreateConversation(commit_ok) ==
    /\ cpc = "resolve"
    /\ request.conversation_id = 0
    /\ Len(conversations) + 1 \in ConversationIds
    /\ IF commit_ok
       THEN /\ conversations' = Append(conversations, request.patient_id)
            /\ conversation' = Len(conversations) + 1
            /\ cpc' = "handle" /\ chat_status' = chat_status /\ pending' = pending
       ELSE /\ conversations' = conversations
            /\ conversation' = conversation
            /\ Respond(500)
    /\ UNCHANGED <<request, ai_response, messages, stored_before>>
    /\ UNCHANGED (<<routerVars, ragVars, ingestVars, coordVars, qnaVars, legacyVars, apptVars>>)

\* lines 112-157: the history, the routing decision and the agent that
\* answers. For appointment_service line 132 calls
\* appointment_agent.detect_appointment_intent, a method AppointmentAgent
\* does not have: the AttributeError is an exception like any other of the
\* handler (handler_ok = FALSE), a 500 after db.rollback(), and
\* process_appointment_request at line 133 is not reached
Handle(target_service, handler_ok) ==
    /\ cpc = "handle"
    /\ IF target_service # "appointment_service" /\ handler_ok
       THEN /\ ai_response' = <<111, 107>>
            /\ cpc' = "store" /\ chat_status' = chat_status /\ pending' = pending
       ELSE /\ ai_response' = ai_response
            /\ Respond(500)
    /\ UNCHANGED <<request, conversation, conversations, messages, stored_before>>
    /\ UNCHANGED (<<routerVars, ragVars, ingestVars, coordVars, qnaVars, legacyVars, apptVars>>)

\* lines 159-182: both rows are added to the session
AddMessages ==
    LET \* the two rows chat() adds: the user message, then the assistant reply
        MessagePair(conversation_id, content, reply) ==
            <<ChatMessage(conversation_id, "user", content),
              ChatMessage(conversation_id, "assistant", reply)>>
    IN
        /\ cpc = "store"
        /\ pending' = MessagePair(conversation, Strip(request.message), ai_response)
        /\ cpc' = "commit"
        /\ UNCHANGED <<request, conversation, ai_response, chat_status, conversations,
                       messages, stored_before>>
        /\ UNCHANGED (<<routerVars, ragVars, ingestVars, coordVars, qnaVars, legacyVars, apptVars>>)

\* line 184: db.commit() writes both rows or raises, and then line 205
\* rolls both back
Commit(commit_ok) ==
    /\ cpc = "commit"
    /\ IF commit_ok
       THEN /\ messages' = messages \o pending
            /\ pending' = <<>>
            /\ cpc' = "committed" /\ chat_status' = chat_status
       ELSE /\ messages' = messages
            /\ Respond(500)
    /\ UNCHANGED <<request, conversation, ai_response, conversations, stored_before>>
    /\ UNCHANGED (<<routerVars, ragVars, ingestVars, coordVars, qnaVars, legacyVars, apptVars>>)

\* lines 186-209: the response is built inside the same try block, reading
\* conversation.conversation_id from the row the commit expired; an
\* exception here is a 500 whose rollback has nothing left to undo
BuildResponse(build_ok) ==
    /\ cpc = "committed"
    /\ Respond(IF build_ok THEN 200 ELSE 500)
    /\ UNCHANGED <<request, conversation, ai_response, conversations, messages,
                   stored_before>>
    /\ UNCHANGED (<<routerVars, ragVars, ingestVars, coordVars, qnaVars, legacyVars, apptVars>>)

\* the client has the response; the tables stay
ChatReturn ==
    /\ cpc = "responded"
    /\ cpc' = "idle"
    /\ request' = ([patient_id |-> 0, message |-> <<>>, conversation_id |-> 0])
    /\ conversation' = 0
    /\ ai_response' = <<>>
    /\ chat_status' = 0
    /\ stored_before' = 0
    /\ UNCHANGED <<conversations, messages, pending>>
    /\ UNCHANGED (<<routerVars, ragVars, ingestVars, coordVars, qnaVars, legacyVars, apptVars>>)

\* the steps of one chat request after the other. The messages are
\* sequences of code points: a blank, a tab, a vertical tab, a no-break
\* space, "hi", and "hi" padded with whitespace
ChatNext ==
    \/ \E patient_id \in Patients,
          message \in {<<32>>, <<9>>, <<11>>, <<160>>, <<104, 105>>,
                       <<32, 11, 104, 105, 10>>},
          conversation_id \in ({0} \cup ConversationIds \cup {3}), configured \in BOOLEAN :
          Chat(patient_id, message, conversation_id, configured)
    \/ ValidateMessage
    \/ FindOrReject
    \/ \E commit_ok \in BOOLEAN : CreateConversation(commit_ok)
    \/ \E target_service \in {"appointment_service", "qna_service", "frontend"},
          handler_ok \in BOOLEAN :
          Handle(target_service, handler_ok)
    \/ AddMessages
    \/ \E commit_ok \in BOOLEAN : Commit(commit_ok)
    \/ \E build_ok \in BOOLEAN : BuildResponse(build_ok)
    \/ ChatReturn

ChatSpec == ChatInit /\ [][ChatNext]_vars

\* ============================================================== claims
\* tokens of the message that _scan_token assigns to a task
Votes(t, task) ==
    LET tokens == _tokenize(t)
    IN Cardinality({i \in 1..Len(tokens) : _scan_token(tokens[i]) = task})

\* _rule_scan has produced rule_result
RuleScanned == pc \in {"fallback", "classified", "done", "raised"} /\ text # <<>>

\* the vote aggregation has produced rule_result
Aggregated == RuleScanned \/ pc = "voted"

\* C1: for every input text the keyword classifier's result satisfies
\* counts.scheduling + counts.qna = len(evidence).
C1_CountsEqualEvidence ==
    RuleScanned =>
        rule_result.counts.scheduling + rule_result.counts.qna
            = Len(rule_result.evidence)

\* C2: a message with at least one qna-vocabulary token and no scheduling
\* token is reported by route_decision with qna hits >= 1, scheduling hits 0,
\* intent qna, confidence 1.0 and next_service qna_service / answer_question.
C2_QnaOnlyRoutesToQna ==
    (pc = "done" /\ Votes(text, "qna") >= 1 /\ Votes(text, "scheduling") = 0) =>
        /\ decision.raw_result.counts.qna >= 1
        /\ decision.raw_result.counts.scheduling = 0
        /\ decision.intent = "qna"
        /\ decision.confidence = One
        /\ decision.next_service = "qna_service"
        /\ decision.action = "answer_question"

\* C3: a message with exactly tied votes (as many scheduling tokens as qna
\* tokens, one of each for instance) is routed to frontend / ask_user_decision.
C3_TiedVotesAskUser ==
    (pc = "done" /\ Votes(text, "scheduling") = Votes(text, "qna")
                 /\ Votes(text, "scheduling") >= 1) =>
        /\ decision.next_service = "frontend"
        /\ decision.action = "ask_user_decision"

\* C4: the keyword classifier's intent follows the majority of the per-token
\* votes: more scheduling tokens than qna tokens gives scheduling, more qna
\* tokens than scheduling tokens gives qna.
C4_IntentFollowsTokenMajority ==
    RuleScanned =>
        /\ Votes(text, "scheduling") > Votes(text, "qna")
              => rule_result.intent = "scheduling"
        /\ Votes(text, "qna") > Votes(text, "scheduling")
              => rule_result.intent = "qna"

\* C5: whenever the two hit counts are equal, 0-0 included, the keyword
\* classifier returns confidence exactly 0.5 and intent user_decision.
C5_EqualCountsUndecided ==
    (Aggregated /\ rule_result.counts.scheduling = rule_result.counts.qna) =>
        /\ rule_result.confidence = Half
        /\ rule_result.intent = "user_decision"

C5_Witness ==
    /\ pc = "voted"
    /\ scheduling_hits = 2
    /\ qna_hits = 2
    /\ rule_result.counts = [scheduling |-> 2, qna |-> 2]
    /\ rule_result.intent = "user_decision"

\* margin-to-total ratio of (s1, q1) is at most that of (s2, q2)
RatioLeq(s1, q1, s2, q2) ==
    Abs(s1 - q1) * Max(1, s2 + q2) <= Abs(s2 - q2) * Max(1, s1 + q1)

\* C6: for hit counts with a nonzero margin the keyword confidence lies in
\* (0.5, 1.0], does not decrease when the margin-to-total ratio grows, and is
\* 1.0 exactly when one of the two counts is zero.
C6_ConfidenceRangeAndMonotone ==
    (Aggregated /\ rule_result.counts.scheduling # rule_result.counts.qna) =>
        LET s == rule_result.counts.scheduling
            q == rule_result.counts.qna
            c == rule_result.confidence
        IN /\ RLt(Half, c)
           /\ RLeq(c, One)
           /\ (c = One) <=> (s = 0 \/ q = 0)
           /\ \A s2, q2 \in 0..MaxVotes :
                 /\ RatioLeq(s, q, s2, q2) => RLeq(c, Confidence(s2, q2))
                 /\ RatioLeq(s2, q2, s, q) => RLeq(Confidence(s2, q2), c)

C6_Witness ==
    /\ pc = "voted"
    /\ scheduling_hits = 3
    /\ qna_hits = 2
    /\ rule_result.confidence = <<3, 5>>

\* C7: a message with at least one scheduling-vocabulary token and no qna
\* token is reported by route_decision with scheduling hits >= 1, qna hits 0,
\* intent scheduling, confidence 1.0 and next_service appointment_service /
\* book_appointment, and the LLM is not invoked on the way.
C7_SchedulingOnlyRoutesToAppointment ==
    (Votes(text, "scheduling") >= 1 /\ Votes(text, "qna") = 0
        /\ pc \notin {"idle", "called"}) =>
        /\ pc \in {"classified", "done"}
        /\ llm_calls = 0
        /\ pc = "done" =>
              /\ decision.raw_result.counts.scheduling >= 1
              /\ decision.raw_result.counts.qna = 0
              /\ decision.raw_result.source = "stemming rule"
              /\ decision.intent = "scheduling"
              /\ decision.confidence = One
              /\ decision.next_service = "appointment_service"
              /\ decision.action = "book_appointment"

C7_Witness ==
    /\ pc = "done"
    /\ client
    /\ text = <<"the", " ", "hurts">>
    /\ decision.next_service = "appointment_service"
    /\ llm_calls = 0

\* C8: route_decision dispatches to appointment_service / book_appointment
\* only when the classification is scheduling with confidence >= 0.6, to
\* qna_service / answer_question only when it is qna with confidence >= 0.6,
\* and to frontend / ask_user_decision in every other case.
C8_DispatchDoubleGate ==
    pc = "done" =>
        LET sure == RLeq(DispatchThreshold, result.confidence)
        IN /\ decision.raw_result = result
           /\ decision.next_service = "appointment_service"
                 <=> (result.intent = "scheduling" /\ sure)
           /\ decision.next_service = "qna_service"
                 <=> (result.intent = "qna" /\ sure)
           /\ decision.next_service = "frontend"
                 <=> ~(result.intent \in {"scheduling", "qna"} /\ sure)
           /\ decision.action =
                 CASE decision.next_service = "appointment_service" -> "book_appointment"
                   [] decision.next_service = "qna_service" -> "answer_question"
                   [] OTHER -> "ask_user_decision"

\* a low-confidence LLM verdict ends at the frontend
C8_Witness ==
    /\ pc = "done"
    /\ llm_calls = 1
    /\ result.source = "llm"
    /\ result.intent = "scheduling"
    /\ result.confidence = <<3, 10>>
    /\ decision.next_service = "frontend"
    /\ decision.action = "ask_user_decision"

\* C9: within one classification the generation service is never called when
\* the keyword confidence is at or above the threshold (the rule result is
\* returned as is), and at most once when it is strictly below.
C9_LlmOnlyBelowThreshold ==
    /\ llm_calls <= 1
    /\ llm_calls = 1 =>
          /\ RuleScanned
          /\ RLt(rule_result.confidence, min_confidence_for_rules)
    /\ (RuleScanned /\ ~RLt(rule_result.confidence, min_confidence_for_rules)) =>
          /\ llm_calls = 0
          /\ pc \in {"classified", "done"}
          /\ result = rule_result

\* a tied 0-0 scan meets the threshold 0.5 and is returned without a call
C9_Witness ==
    /\ pc = "done"
    /\ client
    /\ min_confidence_for_rules = Half
    /\ rule_result.confidence = Half
    /\ text = <<"hours">>
    /\ result = rule_result
    /\ llm_calls = 0

\* C10: whatever the generation backend does on the fallback path,
\* hybrid_decision and route_decision return a result and never raise.
C10_RouterNeverRaises == pc # "raised"

\* hybrid_decision has returned a RoutingResult
Classified == pc \in {"classified", "done"}

\* the generation service was asked and the call raised or the content was
\* not JSON
LlmFailed == llm_calls > 0 /\ llm_reply.kind \in {"raise", "nonjson"}

\* C11: when the LLM call fails or its reply cannot be parsed, the LLM
\* classifier returns intent user_decision, confidence 0.5 and source
\* "fallback".
C11_LlmFailureIsFallback ==
    (LlmFailed /\ Classified) =>
        /\ result.intent = "user_decision"
        /\ result.confidence = Half
        /\ result.source = "fallback"

\* the message is not empty and holds nothing but whitespace
WhitespaceOnly(t) == t # <<>> /\ \A k \in 1..Len(t) : t[k] \in Separators

\* C12: whitespace-only text is short-circuited like empty text: the result
\* has intent user_decision and source "guard", no keyword result is
\* produced and the LLM is not used.
C12_WhitespaceIsGuarded ==
    (WhitespaceOnly(text) /\ pc \notin {"idle", "called"}) =>
        /\ Classified
        /\ result.intent = "user_decision"
        /\ result.source = "guard"
        /\ rule_result = NoResult
        /\ llm_calls = 0

\* C13: the empty string is classified by the guard alone: intent
\* user_decision, source "guard", confidence 0.5, zero counts, no evidence,
\* no rule scan and no LLM call; route_decision sends it to the frontend
\* with action ask_user_decision.
C13_EmptyTextIsGuarded ==
    (text = <<>> /\ pc \notin {"idle", "called", "votes", "voted"}) =>
        /\ Classified
        /\ result.intent = "user_decision"
        /\ result.source = "guard"
        /\ result.confidence = Half
        /\ result.counts = ZeroCounts
        /\ result.evidence = <<>>
        /\ rule_result = NoResult
        /\ llm_calls = 0
        /\ pc = "done" =>
            /\ decision.intent = "user_decision"
            /\ decision.confidence = Half
            /\ decision.next_service = "frontend"
            /\ decision.action = "ask_user_decision"

C13_Witness ==
    /\ pc = "done"
    /\ text = <<>>
    /\ result.source = "guard"
    /\ decision.next_service = "frontend"

\* a confidence is a number between 0 and 1
InUnitInterval(c) == ~IsNaN(c) /\ RLeq(Zero, c) /\ RLeq(c, One)

\* C14: the confidence of every RoutingResult hybrid_decision returns, and of
\* every decision route_decision returns, lies in [0, 1], whatever
\* confidence the LLM supplied.
C14_ConfidenceInUnitInterval ==
    /\ Classified => InUnitInterval(result.confidence)
    /\ pc = "done" => InUnitInterval(decision.confidence)

Intents == {"scheduling", "qna", "user_decision"}

\* C15: the intent of every result is one of scheduling, qna and
\* user_decision, for every reply of the LLM.
C15_IntentIsOneOfThree ==
    /\ Classified => result.intent \in Intents
    /\ pc = "done" => decision.intent \in Intents

\* the string begins and ends with the delimiter
Wrapped(rope) ==
    /\ Len(rope) >= 2
    /\ rope[1] = Lit(delimiter)
    /\ rope[Len(rope)] = Lit(delimiter)

\* the length of what stands between the delimiters
UnwrappedLen(rope) ==
    IF Wrapped(rope) THEN RopeLen(rope) - 2 * Len(delimiter) ELSE RopeLen(rope)

\* a context string has been returned
ContextReturned == rpc \in {"done", "r_done"}

\* C16: the context string never has unwrapped content longer than the
\* budget of 8000 characters, and it is always either the empty string or
\* wrapped by the delimiter on both sides.
C16_ContextWithinBudgetAndWrapped ==
    ContextReturned =>
        /\ UnwrappedLen(context) <= limit
        /\ context = <<>> \/ Wrapped(context)

\* C17: when retrieval yields no passages the context assembler produces
\* the empty string, not a delimiter-wrapped or header-only block.
C17_NoPassagesGiveEmptyString ==
    /\ (rpc = "done" /\ chunks = <<>>) => context = <<>>
    /\ (rpc = "r_done" /\ self_contexts[1] = <<>>) => context = <<>>

\* ceil(n / size)
Ceil(n, size) == (n + size - 1) \div size

\* the ids are {document_id}_1, {document_id}_2, ... in the order of upsert
IdsSequential == \A k \in 1..Len(upserted) : upserted[k].id = vector_id(k)

\* every vector carries a chunk_index equal to the index in its id
ChunkIndexMatchesId ==
    \A k \in 1..Len(upserted) :
        /\ "chunk_index" \in upserted[k].metadata.keys
        /\ upserted[k].metadata.chunk_index = k

\* C18: ingesting an N-line document upserts exactly
\* ceil(N / chunk_size) chunks (none for an empty document), with ids
\* {document_id}_1, _2, ... unique and sequential, metadata chunk_index
\* equal to the index in the id, and the returned count equal to the
\* number of upserts.
C18_IngestCountsIdsAndReturn ==
    ipc = "done" =>
        /\ Len(upserted) = Ceil(doc_len, chunk_size)
        /\ IdsSequential
        /\ ChunkIndexMatchesId
        /\ returned = [kind |-> "int", value |-> Len(upserted)]

\* the number of lines two windows have in common
Overlap(w1, w2) == Max(0, Min(w1[2], w2[2]) - Max(w1[1], w2[1]))

\* the window of the k-th chunk, k = 1, 2, ...
WindowOf(k) ==
    <<i_begin((k - 1) * chunk_size, stride),
      i_end((k - 1) * chunk_size, stride, chunk_size, doc_len)>>

\* C19: every two consecutive chunk windows overlap by exactly stride
\* lines, the windows being [max(0, i - stride), min(N, i_begin +
\* chunk_size)) for i = 0, chunk_size, 2 * chunk_size, ...
C19_ConsecutiveWindowsOverlapByStride ==
    /\ \A k \in 1..Len(upserted) : upserted[k].lines = WindowOf(k)
    /\ \A k \in 1..(Len(upserted) - 1) :
            Overlap(upserted[k].lines, upserted[k + 1].lines) = stride

\* every chunk so far was upserted once, in the order of the range, with
\* its own window and after its embedding succeeded; none was skipped
UpsertedInOrder ==
    /\ count = Len(upserted)
    /\ \A k \in 1..Len(upserted) :
            /\ upserted[k].id = vector_id(k)
            /\ upserted[k].lines = WindowOf(k)
            /\ upserted[k].embedded
    /\ ipc \in {"loop", "done"} => line_i = count * chunk_size
    /\ ipc \in {"embed", "sleep", "retry", "upsert"} => line_i = count * chunk_size
    /\ ipc = "upsert" => embedded
    /\ ipc = "done" => Len(upserted) = Ceil(doc_len, chunk_size)

Ingesting == ipc \in {"loop", "embed", "sleep", "retry", "upsert"}

\* C20 as stated: a failed embedding is retried for the same chunk without
\* limit; provided the embedding succeeds in the end, every chunk is
\* upserted exactly once, in increasing order, never before its embedding
\* succeeded, none is skipped, and the ingest terminates.
C20_RetryUntilEmbeddedThenUpsert ==
    /\ []UpsertedInOrder
    /\ [][(ipc = "sleep" /\ ipc' # "sleep") =>
            (ipc' = "retry" /\ window' = window /\ count' = count)]_vars
    /\ Ingesting ~> (ipc = "done")

\* the chunks stored so far are the first chunks of the document, each
\* stored once with its own window after its embedding succeeded; while
\* nlp_upsert has not raised none was skipped
StoredInOrder ==
    /\ \A k \in 1..Len(upserted) :
            /\ upserted[k].id = vector_id(k)
            /\ upserted[k].lines = WindowOf(k)
            /\ upserted[k].embedded
    /\ ipc # "raised" => (count = Len(upserted) /\ line_i = count * chunk_size)
    /\ ipc = "raised" => (Len(upserted) <= count /\ count <= Len(upserted) + 1)
    /\ ipc = "upsert" => embedded
    /\ ipc = "done" => Len(upserted) = Ceil(doc_len, chunk_size)

\* C20 amended: a failed embedding call is retried for the same chunk
\* without limit and never ends the ingest; provided the embedding succeeds
\* in the end the ingest terminates, either by returning, with every chunk
\* upserted exactly once, in increasing order, never before its embedding
\* succeeded and none skipped, or by the exception of another call
\* (extraction, pc.Index, reading the embedding, index.upsert), with the
\* chunks before it upserted in that way and the others never upserted.
C20_RetryThenUpsertOrRaise ==
    /\ []StoredInOrder
    /\ [][(ipc = "sleep" /\ ipc' # "sleep") =>
            (ipc' = "retry" /\ window' = window /\ count' = count)]_vars
    /\ [][(ipc \in {"embed", "retry"} /\ ipc' \notin {"embed", "retry"}) =>
            ipc' \in {"upsert", "sleep", "raised"}]_vars
    /\ Ingesting ~> (ipc \in {"done", "raised"})

C20_Witness ==
    /\ ipc = "upsert"
    /\ embed_failures = MaxFailures
    /\ embedded
    /\ count >= 1

\* RAGService.get_context_string is running or has returned
ServicePath == rpc \in {"query", "embedded", "queried", "done"}

\* the embedding call raised, the index query raised, or reading the
\* response raised
QueryFailed == query_outcome \in {"embed_raises", "raises", "malformed"}

\* C21: any failure during a retrieval query (embedding raises, index
\* query raises, malformed response) makes query return the empty list
\* without raising, after a single attempt, and get_context_string then
\* returns the empty string.
C21_QueryFailureGivesEmptyList ==
    (ServicePath /\ QueryFailed) =>
        /\ rpc \in {"queried", "done"}
        /\ chunks = <<>>
        /\ embed_calls = 1
        /\ index_calls <= 1
        /\ query_outcome = "embed_raises" => index_calls = 0
        /\ rpc = "done" => context = <<>>

C21_Witness ==
    /\ rpc = "done"
    /\ query_outcome = "malformed"
    /\ top_k > 1
    /\ index_calls = 1
    /\ context = <<>>

\* C22: an empty or whitespace-only query returns the empty list without
\* raising and without any embedding-service or vector-index call.
C22_BlankQueryMakesNoCall ==
    (ServicePath /\ query_text \in {"", " "}) =>
        /\ rpc \in {"query", "queried", "done"}
        /\ embed_calls = 0
        /\ index_calls = 0
        /\ rpc \in {"queried", "done"} => (chunks = <<>> /\ query_outcome = "blank")
        /\ rpc = "done" => context = <<>>

C22_Witness ==
    /\ rpc = "done"
    /\ query_text = " "
    /\ query_outcome = "blank"
    /\ embed_calls = 0

\* the number of leading passages taken when a passage is taken as long as
\* Fits(length of the content with it appended) holds; used is the length
\* of the content so far
RECURSIVE PrefixWithin(_, _, _)
PrefixWithin(contexts, n, used) ==
    IF n = Len(contexts) THEN n
    ELSE IF used + contexts[n + 1].len <= limit
         THEN PrefixWithin(contexts, n + 1, used + contexts[n + 1].len)
         ELSE n

RECURSIVE PrefixBelow(_, _, _)
PrefixBelow(contexts, n, used) ==
    IF n = Len(contexts) THEN n
    ELSE IF used + contexts[n + 1].len < limit
         THEN PrefixBelow(contexts, n + 1, used + contexts[n + 1].len)
         ELSE n

\* delimiter, one space, the first n passages whole and in order, delimiter
PrefixPrompt(contexts, n) ==
    <<Lit(delimiter), Lit(" ")>>
    \o SelectSeq([k \in 1..n |-> PassageText(contexts[k])], LAMBDA seg : seg.len > 0)
    \o <<Lit(delimiter)>>

\* C24 as stated: the content is the concatenation of a prefix of the
\* ranked passages taken whole; a passage is appended while the content
\* with it would not exceed the budget, and assembly stops at the first
\* passage that would.
C24_PrefixWhileNotExceedingBudget ==
    rpc = "r_done" =>
        context = PrefixPrompt(self_contexts[1], PrefixWithin(self_contexts[1], 0, 1))

\* C24 amended: the content of RAG.retrieve is one space followed by a
\* prefix of the ranked passages taken whole; a passage is appended while
\* the content with it (the space included) stays strictly below the limit
\* of 8000 characters, assembly stops at the first passage with which the
\* content would reach the limit, and no later passage is included.
C24_PrefixWhileBelowLimit ==
    rpc = "r_done" =>
        context = PrefixPrompt(self_contexts[1], PrefixBelow(self_contexts[1], 0, 1))

C24_Witness ==
    /\ rpc = "r_done"
    /\ Len(self_contexts[1]) = 3
    /\ PrefixBelow(self_contexts[1], 0, 1) = 1
    /\ self_contexts[1][1].len > 0
    /\ self_contexts[1][3].len > 0
    /\ 1 + self_contexts[1][1].len + self_contexts[1][3].len < limit
    /\ Len(context) = 4

\* hybrid_decision returned from the fallback path
FallbackReturned ==
    /\ Classified
    /\ text # <<>>
    /\ RLt(rule_result.confidence, min_confidence_for_rules)

\* what _llm_classification returned on that path
LlmResult ==
    IF client THEN _llm_classification(text, llm_reply) ELSE Unavailable(text)

\* C25: on the fallback path hybrid_decision returns the LLM classifier's
\* result whenever it carries a non-empty intent, and the keyword rule
\* result only when the LLM result's intent is empty; the returned result
\* is exactly one of the two, never a mixture of their fields.
C25_FallbackPrefersLlmResult ==
    FallbackReturned =>
        /\ LlmResult.intent # "" => result = LlmResult
        /\ LlmResult.intent = "" => result = rule_result
        /\ result \in {LlmResult, rule_result}

C25_Witness ==
    /\ FallbackReturned
    /\ client
    /\ llm_calls = 1
    /\ LlmResult.intent = ""
    /\ result = rule_result
    /\ result.source = "stemming rule"

\* line n of the document is inside the window of an upserted chunk
Covered(n) ==
    \E k \in 1..Len(upserted) : upserted[k].lines[1] <= n /\ n < upserted[k].lines[2]

\* C26: for every document length, chunk_size and stride, every line
\* 0 .. N-1 is contained in at least one upserted chunk window once the
\* ingest has completed.
C26_EveryLineIsIngested ==
    ipc = "done" => \A n \in 0..(doc_len - 1) : Covered(n)

\* C30: on a RoutingAgent without a QnA agent (the state the constructor
\* produces) get_appointment_context and get_doctor_schedule return the
\* 'available upon request' placeholders rather than raising, and when a
\* QnA agent call fails they return the 'temporarily unavailable'
\* placeholders rather than raising.
C30_CoordinationNeverRaises ==
    /\ gpc # "raised"
    /\ (gpc = "done" /\ qna_agent \in {"unset", "None"}) =>
            coord_result \in {AvailableUponRequest, ScheduleUponRequest}
    /\ (gpc = "done" /\ coord_failed) =>
            coord_result \in {TemporarilyUnavailable, ScheduleUnavailable}

\* a question has been answered and the caller is about to get the reply
Answered == qpc = "done"

\* the question is empty or whitespace only
BlankQuestion == user_message \in {"", " "}

\* the retrieval of this question gave no usable context: RAG is off, the
\* query failed, or it found nothing
NoUsableContext ==
    \/ ~(use_rag /\ rag_service)
    \/ query_outcome \in {"embed_raises", "raises", "malformed"}
    \/ rag_context.text = <<>>

\* C27: for a question that is not blank, retrieval (when RAG is on) is
\* attempted once and before the generation call, and the generation call
\* is issued whatever retrieval gave; without usable context the system
\* prompt is the ungrounded one, with context it carries that context. The
\* reply is always one of the three texts: the answer, the apology when the
\* generation failed, or the request for a question when the question was
\* blank, in which case neither retrieval nor generation was called.
C27_RetrievalIsOptionalAndReplyAlwaysGiven ==
    /\ qpc = "retrieving" => generation_calls = 0
    /\ generation_calls > 0 =>
          retrieval_calls = (IF use_rag /\ rag_service THEN 1 ELSE 0)
    /\ Answered /\ BlankQuestion =>
          /\ qna_reply = "ask"
          /\ retrieval_calls = 0 /\ generation_calls = 0
          /\ embed_calls = 0 /\ index_calls = 0
    /\ Answered /\ ~BlankQuestion =>
          /\ generation_calls = 1
          /\ qna_reply \in {"answer", "apology"}
          /\ NoUsableContext => system_prompt = NoPrompt
          /\ ~NoUsableContext =>
                system_prompt = [grounded |-> TRUE, context |-> rag_context.text]

\* a question answered although its retrieval failed
C27_Witness ==
    /\ Answered
    /\ user_message = "q"
    /\ retrieval_calls = 1
    /\ query_outcome \in {"embed_raises", "raises", "malformed"}
    /\ rag_context = ContextOf(<<>>)
    /\ generation_calls = 1
    /\ qna_reply = "answer"

\* what an invocation would send upstream if it shared no state with any
\* other: the constructed context, its own query, the passages retrieved
\* for it, and its own query again
SentAlone(t) ==
    ConstructedContext \o
        <<l_query[t], KnowledgeMessage(RetrievePrompt(Contexts(l_res[t]).list).prompt),
          l_query[t]>>

\* C23: handling one message writes no state that the handling of another
\* reads: what an invocation of the conversational RAG sends upstream is
\* made of its own query and the passages retrieved for it only, and
\* between invocations the global context and reply are as construction
\* left them.
C23_InvocationsShareNoState ==
    /\ \A t \in Callers : l_sent[t] # <<>> => l_sent[t] = SentAlone(t)
    /\ (\A t \in Callers : lpc[t] = "idle") =>
          /\ chatContext = ConstructedContext
          /\ response_message = ConstructedResponse

\* the row a cancel or update operation names, when the table has it
Target(call, rows) == rows[call.appointment_id]

\* session s starts a tool operation in this step: the query of the tool
\* and what it returns at once
Starts(s) == apc[s] = "idle" /\ apc'[s] # "idle"

\* what one step of a tool operation may do, from the table before it to
\* the table and the tool data after it
CancelledIsFinalStep ==
    /\ \A id \in DOMAIN appointments :
          appointments[id].status = "cancelled" =>
              /\ id \in DOMAIN appointments'
              /\ appointments'[id] = appointments[id]
    /\ \A s \in Sessions :
          /\ (loaded'[s] # <<>> /\ tool_call'[s].tool \in {"cancel", "update"}) =>
                /\ appointments'[loaded'[s][1].id].patient_id = tool_call'[s].patient_id
                /\ loaded'[s][1].attrs # <<>> =>
                      loaded'[s][1].attrs[1].patient_id = tool_call'[s].patient_id
          /\ (/\ Starts(s)
              /\ tool_call'[s].tool \in {"cancel", "update"}
              /\ tool_call'[s].appointment_id \in DOMAIN appointments) =>
                /\ Target(tool_call'[s], appointments).patient_id # tool_call'[s].patient_id =>
                      /\ apc'[s] = "returned"
                      /\ loaded'[s] = <<>>
                      /\ tool_data'[s].success = FALSE
                      /\ tool_data'[s].error = "Appointment not found"
                      /\ appointments' = appointments
                /\ (/\ Target(tool_call'[s], appointments).patient_id = tool_call'[s].patient_id
                    /\ Target(tool_call'[s], appointments).status = "cancelled") =>
                      /\ apc'[s] = "returned"
                      /\ tool_data'[s].success = FALSE
                      /\ appointments' = appointments

RECURSIVE RolesOf(_, _)
RolesOf(rows, c) ==
    IF rows = <<>> THEN <<>>
    ELSE IF rows[1].conversation_id = c
         THEN <<rows[1].role>> \o RolesOf(Tail(rows), c)
         ELSE RolesOf(Tail(rows), c)

Alternates(roles) ==
    \A k \in DOMAIN roles :
        roles[k] = (IF k % 2 = 1 THEN "user" ELSE "assistant")

\* the request in progress has added exactly its pair, user first
PairStored ==
    /\ Len(messages) = stored_before + 2
    /\ <<messages[stored_before + 1], messages[stored_before + 2]>> =
          <<ChatMessage(conversation, "user", Strip(request.message)),
            ChatMessage(conversation, "assistant", ai_response)>>

\* C29: a chat request stores its user message and the assistant reply as
\* a pair, user first, in its conversation, or stores nothing; a request
\* answered with an error status has stored nothing; and the stored
\* messages of every conversation alternate user, assistant.
C29_PairOrNothing ==
    /\ cpc # "idle" => (Len(messages) = stored_before \/ PairStored)
    /\ cpc = "responded" =>
          IF chat_status = 200 THEN PairStored ELSE Len(messages) = stored_before
    /\ \A c \in ConversationIds : Alternates(RolesOf(messages, c))

====
